---- MODULE Spec2Model ----
(***************************************************************************)
(* Funnel analytics: the data-sync pipeline (paginated fetch, per-entry    *)
(* normalisation, daily aggregation, step catalog reconciliation,          *)
(* delete-then-insert aggregate writer) and the alert store.               *)
(*                                                                         *)
(* Time is counted in hours.  A page view is modelled by its page_key: the *)
(* page_index field only feeds a diagnostic map and never reaches a        *)
(* stored row.  Array positions are 0-based as in the source.              *)
(***************************************************************************)
EXTENDS Integers, Sequences, FiniteSets, Bags, TLC

(***************************************************************************)
(* Bounds of the model.                                                    *)
(***************************************************************************)
MaxVisits == 4
MaxEntries == 2
MaxRuns == 2
MaxFullBatches == 1
MaxInterrupts == 1
MaxPasses == 3
MaxClock == 36

(***************************************************************************)
(* src/lib/funnel-pages.ts                                                 *)
(***************************************************************************)
FUNNEL_PAGES ==
  <<
    [pageNumber |-> 1, pageKey |-> "current_height_and_weight", isPurchaseComplete |-> FALSE],
    [pageNumber |-> 2, pageKey |-> "bmi_goal_weight", isPurchaseComplete |-> FALSE],
    [pageNumber |-> 3, pageKey |-> "bmi_goal_weight_dq", isPurchaseComplete |-> FALSE],
    [pageNumber |-> 4, pageKey |-> "sex", isPurchaseComplete |-> FALSE],
    [pageNumber |-> 5, pageKey |-> "initial_disqualifiers", isPurchaseComplete |-> FALSE],
    [pageNumber |-> 6, pageKey |-> "specific_effects", isPurchaseComplete |-> FALSE],
    [pageNumber |-> 7, pageKey |-> "main_priority", isPurchaseComplete |-> FALSE],
    [pageNumber |-> 8, pageKey |-> "video_proof", isPurchaseComplete |-> FALSE],
    [pageNumber |-> 9, pageKey |-> "interstitial_magic_science", isPurchaseComplete |-> FALSE],
    [pageNumber |-> 10, pageKey |-> "female_social_proof", isPurchaseComplete |-> FALSE],
    [pageNumber |-> 11, pageKey |-> "male_social_proof", isPurchaseComplete |-> FALSE],
    [pageNumber |-> 12, pageKey |-> "how_glp1_works", isPurchaseComplete |-> FALSE],
    [pageNumber |-> 13, pageKey |-> "glp_motivation", isPurchaseComplete |-> FALSE],
    [pageNumber |-> 14, pageKey |-> "pace", isPurchaseComplete |-> FALSE],
    [pageNumber |-> 15, pageKey |-> "interstitial_works_for_me", isPurchaseComplete |-> FALSE],
    [pageNumber |-> 16, pageKey |-> "interstitial_i_want_faster", isPurchaseComplete |-> FALSE],
    [pageNumber |-> 17, pageKey |-> "interstitial_too_fast", isPurchaseComplete |-> FALSE],
    [pageNumber |-> 18, pageKey |-> "sleep_overall", isPurchaseComplete |-> FALSE],
    [pageNumber |-> 19, pageKey |-> "sleep_hours", isPurchaseComplete |-> FALSE],
    [pageNumber |-> 20, pageKey |-> "female_social_proof_2", isPurchaseComplete |-> FALSE],
    [pageNumber |-> 21, pageKey |-> "male_social_proof_2", isPurchaseComplete |-> FALSE],
    [pageNumber |-> 22, pageKey |-> "dq_health_conditions", isPurchaseComplete |-> FALSE],
    [pageNumber |-> 23, pageKey |-> "other_health_conditions", isPurchaseComplete |-> FALSE],
    [pageNumber |-> 24, pageKey |-> "clearance_required", isPurchaseComplete |-> FALSE],
    [pageNumber |-> 25, pageKey |-> "dq_health_conditions_by_bmi", isPurchaseComplete |-> FALSE],
    [pageNumber |-> 26, pageKey |-> "heart_conditions", isPurchaseComplete |-> FALSE],
    [pageNumber |-> 27, pageKey |-> "allergies", isPurchaseComplete |-> FALSE],
    [pageNumber |-> 28, pageKey |-> "taking_wl_meds", isPurchaseComplete |-> FALSE],
    [pageNumber |-> 29, pageKey |-> "taken_wl_meds", isPurchaseComplete |-> FALSE],
    [pageNumber |-> 30, pageKey |-> "re_gaining_weight", isPurchaseComplete |-> FALSE],
    [pageNumber |-> 31, pageKey |-> "glp_details", isPurchaseComplete |-> FALSE],
    [pageNumber |-> 32, pageKey |-> "taken_opiate_meds", isPurchaseComplete |-> FALSE],
    [pageNumber |-> 33, pageKey |-> "surgeries", isPurchaseComplete |-> FALSE],
    [pageNumber |-> 34, pageKey |-> "wl_programs", isPurchaseComplete |-> FALSE],
    [pageNumber |-> 35, pageKey |-> "patient_willing_to", isPurchaseComplete |-> FALSE],
    [pageNumber |-> 36, pageKey |-> "weight_changed", isPurchaseComplete |-> FALSE],
    [pageNumber |-> 37, pageKey |-> "social_proof", isPurchaseComplete |-> FALSE],
    [pageNumber |-> 38, pageKey |-> "avg_blood_pressure", isPurchaseComplete |-> FALSE],
    [pageNumber |-> 39, pageKey |-> "avg_resting_heart", isPurchaseComplete |-> FALSE],
    [pageNumber |-> 40, pageKey |-> "current_medications", isPurchaseComplete |-> FALSE],
    [pageNumber |-> 41, pageKey |-> "state_of_mind", isPurchaseComplete |-> FALSE],
    [pageNumber |-> 42, pageKey |-> "further_info", isPurchaseComplete |-> FALSE],
    [pageNumber |-> 43, pageKey |-> "concerns", isPurchaseComplete |-> FALSE],
    [pageNumber |-> 44, pageKey |-> "date_of_birth", isPurchaseComplete |-> FALSE],
    [pageNumber |-> 45, pageKey |-> "medical_review", isPurchaseComplete |-> FALSE],
    [pageNumber |-> 46, pageKey |-> "lead_capture", isPurchaseComplete |-> FALSE],
    [pageNumber |-> 47, pageKey |-> "medicine_match", isPurchaseComplete |-> FALSE],
    [pageNumber |-> 48, pageKey |-> "micro_medicine_match", isPurchaseComplete |-> FALSE],
    [pageNumber |-> 49, pageKey |-> "submission_review", isPurchaseComplete |-> FALSE],
    [pageNumber |-> 50, pageKey |-> "dq_page", isPurchaseComplete |-> FALSE],
    [pageNumber |-> 51, pageKey |-> "macro_checkout", isPurchaseComplete |-> FALSE],
    [pageNumber |-> 52, pageKey |-> "micro_checkout", isPurchaseComplete |-> FALSE],
    [pageNumber |-> 53, pageKey |-> "payment_successful", isPurchaseComplete |-> TRUE],
    [pageNumber |-> 54, pageKey |-> "asnyc_confirmation_to_redirect", isPurchaseComplete |-> TRUE],
    [pageNumber |-> 55, pageKey |-> "calendar_page", isPurchaseComplete |-> TRUE]
  >>

PURCHASE_COMPLETE_KEYS ==
  { FUNNEL_PAGES[i].pageKey :
      i \in { j \in DOMAIN FUNNEL_PAGES : FUNNEL_PAGES[j].isPurchaseComplete } }

isPurchaseComplete(pageKey) == pageKey \in PURCHASE_COMPLETE_KEYS

(***************************************************************************)
(* A JavaScript Map: iteration follows the order of first insertion, and   *)
(* set() on a present key replaces the value and keeps the position.       *)
(***************************************************************************)
EmptyMap == [order |-> <<>>, val |-> <<>>]

MapHas(m, k) == \E i \in DOMAIN m.order : m.order[i] = k

MapGet(m, k) == m.val[CHOOSE i \in DOMAIN m.order : m.order[i] = k]

MapSet(m, k, v) ==
  IF MapHas(m, k)
    THEN [m EXCEPT !.val[CHOOSE i \in DOMAIN m.order : m.order[i] = k] = v]
    ELSE [order |-> Append(m.order, k), val |-> Append(m.val, v)]

(***************************************************************************)
(* Entry normaliser, sync-data/route.ts                                    *)
(***************************************************************************)
hasCompletedPurchaseLastOnly(pageViews) ==
  /\ Len(pageViews) > 0
  /\ isPurchaseComplete(pageViews[Len(pageViews)])

hasCompletedPurchase(pageViews) ==
  /\ Len(pageViews) # 0
  /\ \E i \in DOMAIN pageViews : isPurchaseComplete(pageViews[i])

RECURSIVE firstOccurrenceByKey(_, _, _)
firstOccurrenceByKey(pageViews, i, m) ==
  IF i >= Len(pageViews)
    THEN m
    ELSE firstOccurrenceByKey(pageViews, i + 1,
           IF MapHas(m, pageViews[i + 1]) THEN m
           ELSE MapSet(m, pageViews[i + 1], i))

\* the loop of lines 249-252: i runs over the 0-based array positions
RECURSIVE lastOccurrenceByKey(_, _, _)
lastOccurrenceByKey(pageViews, i, m) ==
  IF i >= Len(pageViews)
    THEN m
    ELSE lastOccurrenceByKey(pageViews, i + 1, MapSet(m, pageViews[i + 1], i))

NormalizeEntryNoDedup(pageViews) ==
  LET isCompleted == hasCompletedPurchase(pageViews)
      lastArrayPosition == Len(pageViews) - 1
  IN [ completed |-> isCompleted,
       facts |-> [ j \in DOMAIN pageViews |->
                     [ pageKey |-> pageViews[j],
                       isExit |-> (j - 1 = lastArrayPosition) /\ ~isCompleted ] ] ]

NormalizeEntryExitWhenCompleted(pageViews) ==
  LET isCompleted == hasCompletedPurchase(pageViews)
      occ == lastOccurrenceByKey(pageViews, 0, EmptyMap)
      lastArrayPosition == Len(pageViews) - 1
  IN [ completed |-> isCompleted,
       facts |-> [ j \in DOMAIN occ.order |->
                     [ pageKey |-> occ.order[j],
                       isExit |-> occ.val[j] = lastArrayPosition ] ] ]

\* the facts one entry adds to its day: one element per key of the map, in
\* map order (lines 254-268)
NormalizeEntry(pageViews) ==
  LET isCompleted == hasCompletedPurchase(pageViews)
      occ == lastOccurrenceByKey(pageViews, 0, EmptyMap)
      lastArrayPosition == Len(pageViews) - 1
  IN [ completed |-> isCompleted,
       facts |-> [ j \in DOMAIN occ.order |->
                     [ pageKey |-> occ.order[j],
                       isExit |-> (occ.val[j] = lastArrayPosition) /\ ~isCompleted ] ] ]

(***************************************************************************)
(* Daily aggregator, sync-data/route.ts lines 211-271                      *)
(***************************************************************************)
HoursPerDay == 24

\* new Date(Date.UTC(year, month, date)): the UTC midnight of created_at
DateKey(created_at) == (created_at \div HoursPerDay) * HoursPerDay

EmptyAgg ==
  [dailyStepData |-> EmptyMap, dailyFunnelData |-> EmptyMap, entriesProcessed |-> 0]

AddFactLastWins(dailySteps, fact) ==
  LET existing == IF MapHas(dailySteps, fact.pageKey)
                    THEN MapGet(dailySteps, fact.pageKey)
                    ELSE [views |-> 0, exits |-> 0, continues |-> 0]
  IN MapSet(dailySteps, fact.pageKey,
       [views |-> existing.views + 1,
        exits |-> IF fact.isExit THEN 1 ELSE 0,
        continues |-> IF fact.isExit THEN 0 ELSE 1])

AddFact(dailySteps, fact) ==
  LET existing == IF MapHas(dailySteps, fact.pageKey)
                    THEN MapGet(dailySteps, fact.pageKey)
                    ELSE [views |-> 0, exits |-> 0, continues |-> 0]
  IN MapSet(dailySteps, fact.pageKey,
       [views |-> existing.views + 1,
        exits |-> existing.exits + (IF fact.isExit THEN 1 ELSE 0),
        continues |-> existing.continues + (IF fact.isExit THEN 0 ELSE 1)])

RECURSIVE AddFacts(_, _, _)
AddFacts(dailySteps, facts, j) ==
  IF j > Len(facts) THEN dailySteps
  ELSE AddFacts(AddFact(dailySteps, facts[j]), facts, j + 1)

AddEntrySkipEmpty(agg, entry) ==
  LET dateKey == DateKey(entry.created_at)
      stepData == IF MapHas(agg.dailyStepData, dateKey) THEN agg.dailyStepData
                  ELSE MapSet(agg.dailyStepData, dateKey, EmptyMap)
      funnelData == IF MapHas(agg.dailyFunnelData, dateKey) THEN agg.dailyFunnelData
                    ELSE MapSet(agg.dailyFunnelData, dateKey,
                                [starts |-> 0, completions |-> 0])
      norm == NormalizeEntry(entry.page_views)
      dailyFunnel == MapGet(funnelData, dateKey)
  IN [ dailyStepData |->
         MapSet(stepData, dateKey, AddFacts(MapGet(stepData, dateKey), norm.facts, 1)),
       dailyFunnelData |->
         MapSet(funnelData, dateKey,
           [starts |-> dailyFunnel.starts + (IF Len(entry.page_views) = 0 THEN 0 ELSE 1),
            completions |-> dailyFunnel.completions + (IF norm.completed THEN 1 ELSE 0)]),
       entriesProcessed |-> agg.entriesProcessed + 1 ]

\* one iteration of the loop over the fetched entries
AddEntry(agg, entry) ==
  LET dateKey == DateKey(entry.created_at)
      stepData == IF MapHas(agg.dailyStepData, dateKey) THEN agg.dailyStepData
                  ELSE MapSet(agg.dailyStepData, dateKey, EmptyMap)
      funnelData == IF MapHas(agg.dailyFunnelData, dateKey) THEN agg.dailyFunnelData
                    ELSE MapSet(agg.dailyFunnelData, dateKey,
                                [starts |-> 0, completions |-> 0])
      norm == NormalizeEntry(entry.page_views)
      dailyFunnel == MapGet(funnelData, dateKey)
  IN [ dailyStepData |->
         MapSet(stepData, dateKey, AddFacts(MapGet(stepData, dateKey), norm.facts, 1)),
       dailyFunnelData |->
         MapSet(funnelData, dateKey,
           [starts |-> dailyFunnel.starts + 1,
            completions |-> dailyFunnel.completions + (IF norm.completed THEN 1 ELSE 0)]),
       entriesProcessed |-> agg.entriesProcessed + 1 ]

RECURSIVE AggregateEntries(_, _, _)
AggregateEntries(entries, i, agg) ==
  IF i > Len(entries) THEN agg
  ELSE AggregateEntries(entries, i + 1, AddEntry(agg, entries[i]))

(***************************************************************************)
(* Step catalog reconciler, lines 273-329                                  *)
(***************************************************************************)
RECURSIVE AppendNew(_, _, _)
AppendNew(acc, keys, j) ==
  IF j > Len(keys) THEN acc
  ELSE AppendNew(IF \E i \in DOMAIN acc : acc[i] = keys[j] THEN acc
                 ELSE Append(acc, keys[j]), keys, j + 1)

\* the keys of pageKeyIndexMap in insertion order: days in map order, the
\* keys of each day in map order, a key entered once
RECURSIVE pageKeyIndexMap(_, _, _)
pageKeyIndexMap(dailyStepData, d, acc) ==
  IF d > Len(dailyStepData.order) THEN acc
  ELSE pageKeyIndexMap(dailyStepData, d + 1,
                       AppendNew(acc, dailyStepData.val[d].order, 1))

existingStepKeys == { FUNNEL_PAGES[i].pageKey : i \in DOMAIN FUNNEL_PAGES }

FirstAutoStepNumber == 1000

autoStepNumberFixed(upsertsDone) == FirstAutoStepNumber

\* lines 291, 302 and 316: the stepNumber of the next auto-created step
autoStepNumber(upsertsDone) == FirstAutoStepNumber + upsertsDone

\* the observed keys that get an auto-created step, in upsert order
dynamicKeys(agg) ==
  SelectSeq(pageKeyIndexMap(agg.dailyStepData, 1, <<>>),
            LAMBDA k : k \notin existingStepKeys)

\* prisma.funnelStep.upsert keyed by (funnelId, stepNumber)
upsertStep(funnelSteps, stepNumber, stepKey) ==
  [n \in (DOMAIN funnelSteps) \cup {stepNumber} |->
     IF n = stepNumber THEN stepKey ELSE funnelSteps[n]]

\* lines 176-197: the transaction of the catalog upserts; the page numbers
\* of the catalog are distinct, so each step ends with its catalog key
upsertCatalog(funnelSteps) ==
  LET pageNumbers == { FUNNEL_PAGES[i].pageNumber : i \in DOMAIN FUNNEL_PAGES }
  IN [ n \in (DOMAIN funnelSteps) \cup pageNumbers |->
         IF n \in pageNumbers
           THEN FUNNEL_PAGES[CHOOSE i \in DOMAIN FUNNEL_PAGES :
                               FUNNEL_PAGES[i].pageNumber = n].pageKey
           ELSE funnelSteps[n] ]

\* the map built from findMany: a later step of the list replaces an
\* earlier one with the same key.  The list has no orderBy; the store is
\* taken to return the steps in creation order, which is ascending
\* stepNumber here (catalog steps first, auto steps 1000, 1001, ... in
\* that order), so the highest stepNumber carrying the key is kept.  A step
\* whose stepKey is falsy (the empty string) is left out (line 326).
stepKeyToId(funnelSteps) ==
  [k \in { funnelSteps[n] : n \in DOMAIN funnelSteps } \ {""} |->
     CHOOSE n \in DOMAIN funnelSteps :
       /\ funnelSteps[n] = k
       /\ \A m \in DOMAIN funnelSteps : funnelSteps[m] = k => m <= n]

(***************************************************************************)
(* The store (prisma models) and the sync invocations                      *)
(***************************************************************************)
VARIABLES
  funnel,           \* TRUE once the funnel record exists
  funnelSteps,      \* FunnelStep: stepNumber -> stepKey; the step id is the
                    \* stepNumber, unique within the one funnel
  stepAnalytics,    \* StepAnalytics rows, a bag
  funnelAnalytics,  \* FunnelAnalytics rows, a bag
  syncLog,          \* SyncLog rows in creation order
  run,              \* the local state of each invocation of GET
  runsStarted,      \* number of invocations so far
  interrupts,       \* number of invocations that threw or were killed
  lastWrite,        \* history: per day, what the last run holding the day wrote
  normIn, normOut,  \* input and result of the entry normaliser
  alerts,           \* Alert rows in creation order
  slackLog,         \* the pushes to the notification sink and their outcome
  now,              \* the clock, in hours
  pass,             \* the local state of each alert-check invocation
  passesStarted,    \* number of alert-check invocations so far
  decisions,        \* history: what saveAlerts decided for each candidate
  calcIn, calcOut,  \* input and result of getSeverity and of the rate derivation
  hook,             \* the local state of the webhook handler
  funnelEntries,    \* FunnelEntry rows: entryId -> row
  otherFunnels      \* embeddablesId of the funnels of other projects

ProcIds == {1, 2}
SeqProcs == {1}

limit == 1000
SafetyLimit == 100000
EMBEDDABLES_EMBEDDABLE_ID == "flow_a"

Terminal == {"idle", "done", "killed"}
WritePhase == {"stepDelete", "stepCreate", "funnelDelete", "funnelCreate"}
Active == {"fetch", "funnel", "catalog", "dynamic", "findSteps", "log"} \cup WritePhase

NoResponse ==
  [status |-> 0, success |-> FALSE, hasPartial |-> FALSE, partial |-> FALSE,
   entriesProcessed |-> 0]

NoSnapshot ==
  [funnel |-> FALSE, funnelSteps |-> <<>>, stepAnalytics |-> EmptyBag,
   funnelAnalytics |-> EmptyBag, syncLogLen |-> 0]

IdleRun ==
  [ pc |-> "idle", entries |-> <<>>, offset |-> 0, stoppedEarly |-> FALSE,
    requests |-> 0, lastRequestOffset |-> 0, agg |-> EmptyAgg, dynIdx |-> 0,
    keyToId |-> <<>>, stepIds |-> {}, dayIdx |-> 0, stepsProcessed |-> 0,
    response |-> NoResponse,
    before |-> NoSnapshot,                                \* history
    prev |-> [completed |-> FALSE, entries |-> <<>>] ]    \* history

Snapshot ==
  [funnel |-> funnel, funnelSteps |-> funnelSteps, stepAnalytics |-> stepAnalytics,
   funnelAnalytics |-> funnelAnalytics, syncLogLen |-> Len(syncLog)]

\* the run wrote every day of its data and returned its success response
Completed(rec) ==
  rec.pc = "done" /\ rec.response.status = 200 /\ Len(rec.entries) > 0

RECURSIVE SeqToBag(_)
SeqToBag(s) == IF s = <<>> THEN EmptyBag ELSE SetToBag({Head(s)}) (+) SeqToBag(Tail(s))

dbVars == <<funnel, funnelSteps, stepAnalytics, funnelAnalytics>>
nonSyncVars == <<normIn, normOut, alerts, slackLog, now, pass, passesStarted, decisions,
                 calcIn, calcOut, hook, funnelEntries, otherFunnels>>

\* lines 33-80: authentication, environment check, loop initialisation
StartRun(r, authorized, envOk) ==
  /\ run[r].pc \in Terminal
  /\ runsStarted < MaxRuns
  /\ runsStarted' = runsStarted + 1
  /\ LET fresh == [IdleRun EXCEPT
                     !.before = Snapshot,
                     !.prev = [completed |-> Completed(run[r]),
                               entries |-> IF Completed(run[r]) THEN run[r].entries
                                           ELSE <<>>]]
     IN run' = [run EXCEPT ![r] =
          IF ~authorized
            THEN [fresh EXCEPT !.pc = "done",
                    !.response = [NoResponse EXCEPT !.status = 401]]
          ELSE IF ~envOk
            THEN [fresh EXCEPT !.pc = "done",
                    !.response = [NoResponse EXCEPT !.status = 500]]
          ELSE [fresh EXCEPT !.pc = "fetch"]]
  /\ UNCHANGED <<dbVars, syncLog, interrupts, lastWrite, nonSyncVars>>

\* lines 143-151: what follows the pagination loop up to the next await
AfterLoop(rec) ==
  IF Len(rec.entries) = 0
    THEN [rec EXCEPT !.pc = "done",
            !.response = [NoResponse EXCEPT !.status = 200, !.success = TRUE]]
    ELSE [rec EXCEPT !.pc = "funnel"]

\* lines 84-89: the deadline has passed at the top of the loop.  The deadline
\* is set 90 s ahead right before the loop with no suspension point between,
\* so it can only have passed once a request has been awaited.
FetchDeadline(r) ==
  /\ run[r].pc = "fetch"
  /\ run[r].requests > 0
  /\ run' = [run EXCEPT ![r] = AfterLoop([run[r] EXCEPT !.stoppedEarly = TRUE])]
  /\ UNCHANGED <<dbVars, syncLog, runsStarted, interrupts, lastWrite, nonSyncVars>>

FetchErrorAfterFunnel(r) ==
  /\ run[r].pc = "fetch"
  /\ funnel' = TRUE
  /\ run' = [run EXCEPT ![r] =
       [@ EXCEPT !.pc = "done", !.requests = @ + 1,
                 !.lastRequestOffset = run[r].offset,
                 !.response = [NoResponse EXCEPT !.status = 502]]]
  /\ UNCHANGED <<funnelSteps, stepAnalytics, funnelAnalytics, syncLog, runsStarted,
                 interrupts, lastWrite, nonSyncVars>>

\* lines 101-115: the event source answers with a non-success status
FetchError(r) ==
  /\ run[r].pc = "fetch"
  /\ run' = [run EXCEPT ![r] =
       [@ EXCEPT !.pc = "done", !.requests = @ + 1,
                 !.lastRequestOffset = run[r].offset,
                 !.response = [NoResponse EXCEPT !.status = 502]]]
  /\ UNCHANGED <<dbVars, syncLog, runsStarted, interrupts, lastWrite, nonSyncVars>>

offsetAfterBatchNoAdvance(offset, length) == offset

\* lines 129-134
offsetAfterBatch(offset, length) ==
  IF length < limit THEN offset ELSE offset + limit

\* lines 129-140
hasMoreAfterBatch(offset, length) ==
  ~(length < limit) /\ ~(offsetAfterBatch(offset, length) >= SafetyLimit)

FetchBatchFilteredLength(r, batch) ==
  /\ run[r].pc = "fetch"
  /\ LET filtered == SelectSeq(batch.entries,
                       LAMBDA e : e.embeddable_id = EMBEDDABLES_EMBEDDABLE_ID)
         length == IF batch.length < limit THEN batch.length ELSE Len(filtered)
         rec == [run[r] EXCEPT
                   !.requests = @ + 1,
                   !.lastRequestOffset = run[r].offset,
                   !.entries = @ \o filtered,
                   !.offset = offsetAfterBatch(@, length)]
     IN run' = [run EXCEPT ![r] =
          IF hasMoreAfterBatch(run[r].offset, length) THEN rec ELSE AfterLoop(rec)]
  /\ UNCHANGED <<dbVars, syncLog, runsStarted, interrupts, lastWrite, nonSyncVars>>

\* lines 91-141: one request that succeeds.  batch.length is the number of
\* entries of the response; batch.entries are those of them the model
\* follows, the others belong to other embeddables.
FetchBatch(r, batch) ==
  /\ run[r].pc = "fetch"
  /\ LET filtered == SelectSeq(batch.entries,
                       LAMBDA e : e.embeddable_id = EMBEDDABLES_EMBEDDABLE_ID)
         rec == [run[r] EXCEPT
                   !.requests = @ + 1,
                   !.lastRequestOffset = run[r].offset,
                   !.entries = @ \o filtered,
                   !.offset = offsetAfterBatch(@, batch.length)]
     IN run' = [run EXCEPT ![r] =
          IF hasMoreAfterBatch(run[r].offset, batch.length) THEN rec ELSE AfterLoop(rec)]
  /\ UNCHANGED <<dbVars, syncLog, runsStarted, interrupts, lastWrite, nonSyncVars>>

\* lines 153-167: findFirst, then create when there is no funnel
EnsureFunnel(r) ==
  /\ run[r].pc = "funnel"
  /\ funnel' = TRUE
  /\ run' = [run EXCEPT ![r].pc = "catalog"]
  /\ UNCHANGED <<funnelSteps, stepAnalytics, funnelAnalytics, syncLog, runsStarted,
                 interrupts, lastWrite, nonSyncVars>>

\* lines 175-271: the transaction upserting the catalog steps and the
\* funnel update, then the in-memory aggregation of the fetched entries
UpsertCatalog(r) ==
  /\ run[r].pc = "catalog"
  /\ funnelSteps' = upsertCatalog(funnelSteps)
  /\ LET agg == AggregateEntries(run[r].entries, 1, EmptyAgg)
     IN run' = [run EXCEPT ![r] =
          [@ EXCEPT !.agg = agg, !.dynIdx = 0,
                    !.pc = IF Len(dynamicKeys(agg)) > 0 THEN "dynamic" ELSE "findSteps"]]
  /\ UNCHANGED <<funnel, stepAnalytics, funnelAnalytics, syncLog, runsStarted,
                 interrupts, lastWrite, nonSyncVars>>

\* lines 291-318: one iteration that upserts an auto-created step
UpsertDynamic(r) ==
  /\ run[r].pc = "dynamic"
  /\ LET keys == dynamicKeys(run[r].agg)
     IN /\ funnelSteps' = upsertStep(funnelSteps, autoStepNumber(run[r].dynIdx),
                                     keys[run[r].dynIdx + 1])
        /\ run' = [run EXCEPT ![r] =
             [@ EXCEPT !.dynIdx = @ + 1,
                       !.pc = IF run[r].dynIdx + 1 = Len(keys) THEN "findSteps"
                              ELSE "dynamic"]]
  /\ UNCHANGED <<funnel, stepAnalytics, funnelAnalytics, syncLog, runsStarted,
                 interrupts, lastWrite, nonSyncVars>>

\* lines 320-333
FindSteps(r) ==
  /\ run[r].pc = "findSteps"
  /\ run' = [run EXCEPT ![r] =
       [@ EXCEPT !.keyToId = stepKeyToId(funnelSteps),
                 !.stepIds = DOMAIN funnelSteps,
                 !.stepsProcessed = 0,
                 !.dayIdx = 1,
                 !.pc = "stepDelete"]]
  /\ UNCHANGED <<dbVars, syncLog, runsStarted, interrupts, lastWrite, nonSyncVars>>

deleteStepRowsNoDelete(rows, stepIds, date) == rows

deleteStepRowsAllDates(rows, stepIds, date) ==
  [ row \in { x \in DOMAIN rows : ~(x.stepId \in stepIds) } |-> rows[row] ]

\* lines 339-345: stepAnalytics.deleteMany
deleteStepRows(rows, stepIds, date) ==
  [ row \in { x \in DOMAIN rows : ~(x.stepId \in stepIds /\ x.date = date) } |-> rows[row] ]

RECURSIVE GCD(_, _)
GCD(a, b) == IF b = 0 THEN a ELSE GCD(b, a % b)

\* a rational number with den > 0, in lowest terms
Fraction(num, den) ==
  LET g == GCD(num, den) IN [num |-> num \div g, den |-> den \div g]

ratePerOne(part, whole) ==
  IF whole > 0 THEN Fraction(part, whole) ELSE Fraction(0, 1)

\* lines 363-364 and 391-393: whole > 0 ? (part / whole) * 100 : 0.  The
\* value is kept as the exact quotient; the rounding of the double division
\* is not modelled.
ratePercent(part, whole) ==
  IF whole > 0 THEN Fraction(part * 100, whole) ELSE Fraction(0, 1)

\* lines 363-375: the record pushed for one key of a day
stepRecord(stepId, date, data) ==
  [ stepId |-> stepId, date |-> date, entries |-> data.views,
    exits |-> data.exits, conversions |-> data.continues,
    dropOffRate |-> ratePercent(data.exits, data.views),
    conversionRate |-> ratePercent(data.continues, data.views),
    avgTimeOnStep |-> 0 ]

\* lines 359-377: the records of one day, in the order of the day's map; a
\* key without a step id is skipped
stepRecords(dailySteps, keyToId, date) ==
  LET known == SelectSeq(dailySteps.order, LAMBDA k : k \in DOMAIN keyToId)
  IN [ j \in DOMAIN known |->
         stepRecord(keyToId[known[j]], date, MapGet(dailySteps, known[j])) ]

DeleteStepRows(r) ==
  /\ run[r].pc = "stepDelete"
  /\ LET date == run[r].agg.dailyStepData.order[run[r].dayIdx]
     IN stepAnalytics' = deleteStepRows(stepAnalytics, run[r].stepIds, date)
  /\ run' = [run EXCEPT ![r].pc = "stepCreate"]
  /\ UNCHANGED <<funnel, funnelSteps, funnelAnalytics, syncLog, runsStarted,
                 interrupts, lastWrite, nonSyncVars>>

\* lines 347-382: stepAnalytics.createMany of the day, then the next day
CreateStepRows(r) ==
  /\ run[r].pc = "stepCreate"
  /\ LET dsd == run[r].agg.dailyStepData
         date == dsd.order[run[r].dayIdx]
         records == stepRecords(dsd.val[run[r].dayIdx], run[r].keyToId, date)
     IN /\ stepAnalytics' = stepAnalytics (+) SeqToBag(records)
        /\ run' = [run EXCEPT ![r] =
             [@ EXCEPT !.stepsProcessed = @ + Len(records),
                       !.dayIdx = IF run[r].dayIdx < Len(dsd.order) THEN @ + 1 ELSE 1,
                       !.pc = IF run[r].dayIdx < Len(dsd.order) THEN "stepDelete"
                              ELSE "funnelDelete"]]
  /\ UNCHANGED <<funnel, funnelSteps, funnelAnalytics, syncLog, runsStarted,
                 interrupts, lastWrite, nonSyncVars>>

\* lines 395-401: funnelAnalytics.deleteMany
deleteFunnelRows(rows, date) ==
  [ row \in { x \in DOMAIN rows : ~(x.date = date) } |-> rows[row] ]

\* lines 391-393 and 403-412
funnelRecord(dailyFunnel, date) ==
  [ date |-> date, totalStarts |-> dailyFunnel.starts,
    totalCompletions |-> dailyFunnel.completions,
    totalDropoffs |-> dailyFunnel.starts - dailyFunnel.completions,
    conversionRate |-> ratePercent(dailyFunnel.completions, dailyFunnel.starts) ]

DeleteFunnelRows(r) ==
  /\ run[r].pc = "funnelDelete"
  /\ LET date == run[r].agg.dailyFunnelData.order[run[r].dayIdx]
     IN funnelAnalytics' = deleteFunnelRows(funnelAnalytics, date)
  /\ run' = [run EXCEPT ![r].pc = "funnelCreate"]
  /\ UNCHANGED <<funnel, funnelSteps, stepAnalytics, syncLog, runsStarted,
                 interrupts, lastWrite, nonSyncVars>>

CreateFunnelRow(r) ==
  /\ run[r].pc = "funnelCreate"
  /\ LET dfd == run[r].agg.dailyFunnelData
         date == dfd.order[run[r].dayIdx]
     IN /\ funnelAnalytics' =
             funnelAnalytics (+) SetToBag({funnelRecord(dfd.val[run[r].dayIdx], date)})
        /\ run' = [run EXCEPT ![r] =
             [@ EXCEPT !.dayIdx = IF run[r].dayIdx < Len(dfd.order) THEN @ + 1 ELSE 1,
                       !.pc = IF run[r].dayIdx < Len(dfd.order) THEN "funnelDelete"
                              ELSE "log"]]
  /\ UNCHANGED <<funnel, funnelSteps, stepAnalytics, syncLog, runsStarted,
                 interrupts, lastWrite, nonSyncVars>>

\* what a run that wrote all its days leaves for one day
WrittenFor(rec, d) ==
  [ clean |-> TRUE,
    stepRows |-> SeqToBag(stepRecords(rec.agg.dailyStepData.val[d], rec.keyToId,
                                      rec.agg.dailyStepData.order[d])),
    funnelRows |-> SetToBag({funnelRecord(rec.agg.dailyFunnelData.val[d],
                                          rec.agg.dailyFunnelData.order[d])}) ]

DaysOf(rec) == { rec.agg.dailyStepData.order[d] : d \in DOMAIN rec.agg.dailyStepData.order }

\* lines 415-473: the sync log row of the run and its response
WriteSyncLog(r) ==
  /\ run[r].pc = "log"
  /\ syncLog' = Append(syncLog,
       [status |-> "success", recordsProcessed |-> run[r].agg.entriesProcessed,
        hasError |-> FALSE])
  /\ run' = [run EXCEPT ![r] =
       [@ EXCEPT !.pc = "done",
                 !.response = [status |-> 200, success |-> TRUE, hasPartial |-> TRUE,
                               partial |-> run[r].stoppedEarly,
                               entriesProcessed |-> run[r].agg.entriesProcessed]]]
  /\ lastWrite' =
       LET order == run[r].agg.dailyStepData.order
       IN [ day \in (DOMAIN lastWrite) \cup DaysOf(run[r]) |->
              IF day \in DaysOf(run[r])
                THEN WrittenFor(run[r], CHOOSE d \in DOMAIN order : order[d] = day)
                ELSE lastWrite[day] ]
  /\ UNCHANGED <<dbVars, runsStarted, interrupts, nonSyncVars>>

\* a run that stops in its write phase leaves its days in an unknown state
Interrupted(r) ==
  IF run[r].pc \in WritePhase \cup {"log"}
    THEN [ day \in (DOMAIN lastWrite) \cup DaysOf(run[r]) |->
             IF day \in DaysOf(run[r])
               THEN [clean |-> FALSE, stepRows |-> EmptyBag, funnelRows |-> EmptyBag]
               ELSE lastWrite[day] ]
    ELSE lastWrite

\* lines 474-499: an awaited call rejects (network, store); the catch block
\* writes a failed sync log row, unless that write fails too, and answers 500
Throw(r, logged) ==
  /\ run[r].pc \in Active
  /\ interrupts < MaxInterrupts
  /\ interrupts' = interrupts + 1
  /\ syncLog' = IF logged
                  THEN Append(syncLog, [status |-> "failed", recordsProcessed |-> 0,
                                        hasError |-> TRUE])
                  ELSE syncLog
  /\ run' = [run EXCEPT ![r] =
       [@ EXCEPT !.pc = "done", !.response = [NoResponse EXCEPT !.status = 500]]]
  /\ lastWrite' = Interrupted(r)
  /\ UNCHANGED <<dbVars, runsStarted, nonSyncVars>>

\* the host kills the process at the execution ceiling (maxDuration)
Kill(r) ==
  /\ run[r].pc \in Active
  /\ interrupts < MaxInterrupts
  /\ interrupts' = interrupts + 1
  /\ run' = [run EXCEPT ![r].pc = "killed"]
  /\ lastWrite' = Interrupted(r)
  /\ UNCHANGED <<dbVars, syncLog, runsStarted, nonSyncVars>>

(***************************************************************************)
(* Inputs of the model                                                     *)
(***************************************************************************)
NormKeys ==
  {"current_height_and_weight", "bmi_goal_weight", "payment_successful", "calendar_page",
   "new_page_key"}

RECURSIVE SeqsUpTo(_, _)
SeqsUpTo(S, n) ==
  IF n = 0 THEN {<<>>}
  ELSE LET shorter == SeqsUpTo(S, n - 1)
       IN shorter \cup { Append(s, x) : s \in { t \in shorter : Len(t) = n - 1 }, x \in S }

SyncCreatedAts == {23, 25}

SyncPageViews ==
  { <<"current_height_and_weight", "new_page_key", "current_height_and_weight">>,
    <<"other_page", "new_page_key", "payment_successful">> }

SyncEntries ==
  [embeddable_id : {EMBEDDABLES_EMBEDDABLE_ID}, created_at : SyncCreatedAts,
   page_views : SyncPageViews]

ForeignEntry ==
  [embeddable_id |-> "flow_b", created_at |-> 23,
   page_views |-> <<"current_height_and_weight">>]

\* the responses a request of run r may get: at most MaxEntries entries of
\* the configured embeddable over the whole run, the rest of a batch being
\* entries of other embeddables
BatchesOf(r, canBeFull) ==
  LET room == MaxEntries - Len(run[r].entries)
      own == SeqsUpTo(SyncEntries, room)
      contents == own \cup { <<ForeignEntry>> \o s : s \in own }
  IN { [length |-> Len(es), entries |-> es] : es \in contents }
       \cup (IF canBeFull THEN { [length |-> limit, entries |-> es] : es \in contents }
             ELSE {})

NoNorm == [done |-> FALSE, completed |-> FALSE, facts |-> <<>>]

NoCalc == [done |-> FALSE]

IdleHook ==
  [pc |-> "idle", posts |-> 0, projectId |-> "", entryId |-> "", isCompleted |-> FALSE,
   response |-> [status |-> 0, success |-> FALSE],
   before |-> [stepAnalytics |-> EmptyBag, funnelAnalytics |-> EmptyBag,   \* history
               funnel |-> FALSE, funnelSteps |-> <<>>, syncLogLen |-> 0,
               otherFunnels |-> {}, funnelEntries |-> <<>>, runsStarted |-> 0]]

calcVars == <<calcIn, calcOut>>
syncVarsOnly == <<funnel, funnelSteps, stepAnalytics, funnelAnalytics, syncLog, run,
                  runsStarted, interrupts, lastWrite, normIn, normOut>>
hookVars == <<hook, funnelEntries, otherFunnels>>

InitCalc ==
  /\ calcIn = <<>>
  /\ calcOut = NoCalc

InitHook ==
  /\ hook = IdleHook
  /\ funnelEntries = <<>>
  /\ otherFunnels = {}

IdlePass ==
  [pc |-> "idle", detected |-> <<>>, i |-> 0, savedCount |-> 0,
   id |-> 0,                     \* history: the number of the invocation
   at |-> 0, priors |-> {}]      \* history of the last findFirst

alertVars == <<alerts, slackLog, now, pass, passesStarted, decisions>>

InitAlerts ==
  /\ alerts = <<>>
  /\ slackLog = <<>>
  /\ now = 0
  /\ pass = [p \in ProcIds |-> IdlePass]
  /\ passesStarted = 0
  /\ decisions = <<>>

InitStore ==
  /\ funnel = FALSE
  /\ funnelSteps = <<>>
  /\ stepAnalytics = EmptyBag
  /\ funnelAnalytics = EmptyBag
  /\ syncLog = <<>>
  /\ run = [r \in ProcIds |-> IdleRun]
  /\ runsStarted = 0
  /\ interrupts = 0
  /\ lastWrite = <<>>

Init ==
  /\ InitStore
  /\ InitAlerts
  /\ InitCalc
  /\ InitHook
  /\ normIn = <<>>
  /\ normOut = NoNorm

\* the steps of a run after its pagination loop
WriteStep(r) ==
  \/ EnsureFunnel(r)
  \/ UpsertCatalog(r)
  \/ UpsertDynamic(r)
  \/ FindSteps(r)
  \/ DeleteStepRows(r)
  \/ CreateStepRows(r)
  \/ DeleteFunnelRows(r)
  \/ CreateFunnelRow(r)
  \/ WriteSyncLog(r)

RunStep(r) ==
  \/ FetchDeadline(r)
  \/ FetchError(r)
  \/ WriteStep(r)

\* invocations one after another; the event source holds at most
\* MaxFullBatches full pages
Next ==
  \E r \in SeqProcs :
    \/ \E authorized \in BOOLEAN, envOk \in BOOLEAN : StartRun(r, authorized, envOk)
    \/ \E batch \in BatchesOf(r, run[r].offset < MaxFullBatches * limit) :
         FetchBatch(r, batch)
    \/ RunStep(r)
    \/ \E logged \in BOOLEAN : Throw(r, logged)
    \/ Kill(r)

vars == <<funnel, funnelSteps, stepAnalytics, funnelAnalytics, syncLog, run,
          runsStarted, interrupts, lastWrite, normIn, normOut, alerts, slackLog, now,
          pass, passesStarted, decisions, calcIn, calcOut, hook, funnelEntries,
          otherFunnels>>

Spec == Init /\ [][Next]_vars

(***************************************************************************)
(* The normaliser applied to every page-view sequence up to MaxVisits     *)
(***************************************************************************)
Normalize ==
  /\ ~normOut.done
  /\ normOut' = [done |-> TRUE] @@ NormalizeEntry(normIn)
  /\ UNCHANGED <<funnel, funnelSteps, stepAnalytics, funnelAnalytics, syncLog, run,
                 runsStarted, interrupts, lastWrite, normIn, alertVars, calcVars,
                 hookVars>>

InitNorm ==
  /\ InitStore
  /\ InitAlerts
  /\ InitCalc
  /\ InitHook
  /\ normIn \in SeqsUpTo(NormKeys, MaxVisits)
  /\ normOut = NoNorm

NextNorm == Normalize

SpecNorm == InitNorm /\ [][NextNorm]_vars

(***************************************************************************)
(* Properties of the entry normaliser (SpecNorm)                           *)
(***************************************************************************)
NormInKeys == { normIn[i] : i \in DOMAIN normIn }

NormInHasPurchaseKey ==
  \E i \in DOMAIN normIn :
    normIn[i] \in {"payment_successful", "asnyc_confirmation_to_redirect", "calendar_page"}

FactsOf(k) == { j \in DOMAIN normOut.facts : normOut.facts[j].pageKey = k }

\* C1: for an entry that is not completed, every distinct key of the page-view
\* sequence yields exactly one fact (one view), no other key yields one, and
\* the fact of a key is an exit exactly when the key stands at the last array
\* position of the sequence; every other distinct key is a continue.
C1_DedupLastOccurrence ==
  (normOut.done /\ ~NormInHasPurchaseKey) =>
    /\ \A k \in NormInKeys : Cardinality(FactsOf(k)) = 1
    /\ \A j \in DOMAIN normOut.facts : normOut.facts[j].pageKey \in NormInKeys
    /\ \A j \in DOMAIN normOut.facts :
         normOut.facts[j].isExit <=> (normOut.facts[j].pageKey = normIn[Len(normIn)])

\* the sequence [A, B, A, C] has been normalised: C exits, A and B continue
C1_Witness ==
  /\ normOut.done
  /\ normIn = <<"current_height_and_weight", "bmi_goal_weight",
                "current_height_and_weight", "new_page_key">>
  /\ Len(normOut.facts) = 3
  /\ \A j \in DOMAIN normOut.facts :
       normOut.facts[j].isExit <=> (normOut.facts[j].pageKey = "new_page_key")

\* C2: an entry is completed exactly when some page view, at any position,
\* has a purchase-complete key; a completed entry has no exit fact and every
\* distinct key, the last one included, has exactly one continue fact.
C2_CompletionOverridesExit ==
  normOut.done =>
    /\ normOut.completed <=> NormInHasPurchaseKey
    /\ normOut.completed =>
         /\ \A j \in DOMAIN normOut.facts : ~normOut.facts[j].isExit
         /\ \A k \in NormInKeys : Cardinality(FactsOf(k)) = 1

\* a purchase-complete key that is not the last page view completes the entry
C2_Witness ==
  /\ normOut.done
  /\ normIn = <<"current_height_and_weight", "payment_successful", "bmi_goal_weight">>
  /\ normOut.completed
  /\ \A j \in DOMAIN normOut.facts : ~normOut.facts[j].isExit

(***************************************************************************)
(* Properties of the sync runs (Spec)                                      *)
(***************************************************************************)
RowsOn(B, day) == [x \in { y \in DOMAIN B : y.date = day } |-> B[x]]

AllDates == { x.date : x \in (DOMAIN stepAnalytics) \cup (DOMAIN funnelAnalytics) }

NoRowTwice(B) == \A x \in DOMAIN B : B[x] = 1

\* C3: when a run that wrote all its days directly follows a run that wrote
\* all its days and both fetched the same entries, the stored step rows and
\* funnel rows are the rows the first run left, and no row is stored twice.
C3_IdempotentResync ==
  \A r \in ProcIds :
    (Completed(run[r]) /\ run[r].prev.completed /\ run[r].prev.entries = run[r].entries) =>
      /\ stepAnalytics = run[r].before.stepAnalytics
      /\ funnelAnalytics = run[r].before.funnelAnalytics
      /\ NoRowTwice(stepAnalytics)
      /\ NoRowTwice(funnelAnalytics)

\* two complete runs in succession over the same two entries, with step rows stored
C3_Witness ==
  \E r \in ProcIds :
    /\ Completed(run[r])
    /\ run[r].prev.completed
    /\ run[r].prev.entries = run[r].entries
    /\ Len(run[r].entries) = 2
    /\ stepAnalytics # EmptyBag
    /\ funnelAnalytics # EmptyBag

\* C4: between runs, the rows stored for a day are exactly the rows of the
\* most recent run that held the day and wrote all its days (none of an
\* earlier run remain, none is doubled), and in every state of a run the rows
\* of the days absent from its fetched entries are those stored at its start.
C4_ReplacedPerDay ==
  /\ (\A r \in ProcIds : run[r].pc \in Terminal) =>
       /\ AllDates \subseteq DOMAIN lastWrite
       /\ \A day \in DOMAIN lastWrite :
            lastWrite[day].clean =>
              /\ RowsOn(stepAnalytics, day) = lastWrite[day].stepRows
              /\ RowsOn(funnelAnalytics, day) = lastWrite[day].funnelRows
  /\ \A r \in SeqProcs :
       run[r].pc # "idle" =>
         \A day \in (AllDates \cup { x.date : x \in (DOMAIN run[r].before.stepAnalytics)
                                               \cup (DOMAIN run[r].before.funnelAnalytics) })
                      \ DaysOf(run[r]) :
           /\ RowsOn(stepAnalytics, day) = RowsOn(run[r].before.stepAnalytics, day)
           /\ RowsOn(funnelAnalytics, day) = RowsOn(run[r].before.funnelAnalytics, day)

\* a complete run replaced day 0 with different rows and left day 24, written
\* by the run before it, alone
C4_Witness ==
  \E r \in SeqProcs :
    /\ Completed(run[r])
    /\ run[r].prev.completed
    /\ DaysOf(run[r]) = {0}
    /\ 24 \in DOMAIN lastWrite
    /\ lastWrite[24].clean
    /\ RowsOn(run[r].before.stepAnalytics, 0) # EmptyBag
    /\ RowsOn(stepAnalytics, 0) # RowsOn(run[r].before.stepAnalytics, 0)
    /\ RowsOn(stepAnalytics, 24) # EmptyBag

Interrupt(rec) == rec.pc = "killed" \/ (rec.pc = "done" /\ rec.response.status = 500)

NewStepRows(rec, day) ==
  LET order == rec.agg.dailyStepData.order
      d == CHOOSE i \in DOMAIN order : order[i] = day
  IN SeqToBag(stepRecords(rec.agg.dailyStepData.val[d], rec.keyToId, day))

\* C5: after a run was interrupted (killed by the host, or stopped by a
\* rejected call), the step rows of each day of its data are either all the
\* rows stored before the run or all the rows the run computed for the day.
C5_NeverHalfReplaced ==
  \A r \in SeqProcs :
    Interrupt(run[r]) =>
      \A day \in DaysOf(run[r]) :
        \/ RowsOn(stepAnalytics, day) = RowsOn(run[r].before.stepAnalytics, day)
        \/ RowsOn(stepAnalytics, day) = NewStepRows(run[r], day)

\* C6: a run whose pagination loop was stopped by the deadline, and in which
\* no awaited call rejected, answers with a success response that carries
\* partial = true and counts the entries fetched so far.
C6_DeadlineGivesPartial ==
  \A r \in SeqProcs :
    (run[r].pc = "done" /\ run[r].stoppedEarly /\ run[r].response.status # 500) =>
      /\ run[r].response.status = 200
      /\ run[r].response.success
      /\ run[r].response.hasPartial
      /\ run[r].response.partial
      /\ run[r].response.entriesProcessed = Len(run[r].entries)

\* C7: a run that got a non-success response from the event source has
\* answered with an error and left funnel, step catalog, step rows and
\* funnel rows as they were when it started.
C7_UpstreamErrorWritesNothing ==
  \A r \in SeqProcs :
    (run[r].pc = "done" /\ run[r].response.status = 502) =>
      /\ ~run[r].response.success
      /\ funnel = run[r].before.funnel
      /\ funnelSteps = run[r].before.funnelSteps
      /\ stepAnalytics = run[r].before.stepAnalytics
      /\ funnelAnalytics = run[r].before.funnelAnalytics

\* the second request of a run failed after the first batch brought an entry
C7_Witness ==
  \E r \in SeqProcs :
    /\ run[r].pc = "done"
    /\ run[r].response.status = 502
    /\ run[r].requests = 2
    /\ Len(run[r].entries) > 0

\* C8: a run aborted by a non-success response of the event source has
\* appended one sync-log row, with status failed and an error message.
C8_UpstreamErrorLogged ==
  \A r \in SeqProcs :
    (run[r].pc = "done" /\ run[r].response.status = 502) =>
      /\ Len(syncLog) = run[r].before.syncLogLen + 1
      /\ syncLog[Len(syncLog)].status = "failed"
      /\ syncLog[Len(syncLog)].hasError

(***************************************************************************)
(* Pagination of one run against a source of any length (SpecPag): no      *)
(* bound on the number of full pages, no interruption.  The entries of the           *)
(* configured embeddable lie on the last, short page of the source.  Every *)
(* awaited request settles, so a run in its pagination loop takes its next *)
(* step.                                                                   *)
(***************************************************************************)
PagBatchesOf(r) ==
  BatchesOf(r, FALSE)
    \cup { [length |-> limit, entries |-> es] : es \in {<<>>, <<ForeignEntry>>} }

FetchStep(r) ==
  \/ FetchDeadline(r)
  \/ FetchError(r)
  \/ \E batch \in PagBatchesOf(r) : FetchBatch(r, batch)

\* one invocation
NextPag ==
  \E r \in SeqProcs :
    \/ /\ runsStarted = 0
       /\ \E authorized \in BOOLEAN, envOk \in BOOLEAN : StartRun(r, authorized, envOk)
    \/ FetchStep(r)
    \/ RunStep(r)

SpecPag == Init /\ [][NextPag]_vars /\ \A r \in SeqProcs : WF_vars(FetchStep(r))

MaxRequests == SafetyLimit \div limit

PaginationInv ==
  \A r \in SeqProcs :
    /\ run[r].requests <= MaxRequests
    /\ run[r].requests > 0 => run[r].lastRequestOffset = 1000 * (run[r].requests - 1)
    /\ run[r].pc = "fetch" =>
         /\ run[r].offset = 1000 * run[r].requests
         /\ run[r].offset < 100000
         /\ ~run[r].stoppedEarly
    /\ (run[r].pc \notin {"idle", "fetch"} /\ run[r].response.status \notin {401, 500, 502}) =>
         \/ run[r].stoppedEarly
         \/ run[r].offset = 1000 * (run[r].requests - 1)
         \/ run[r].offset = 100000 /\ run[r].requests = MaxRequests

\* C9: the k-th request of a run is made at offset 1000 * (k - 1) and a run
\* makes at most 100 requests; the loop goes on only below offset 100000 and
\* after full batches only; it is left after a batch shorter than the page
\* size, at offset 100000, or on the deadline; and a run in the loop
\* eventually leaves it.
C9_PaginationTerminates ==
  /\ []PaginationInv
  /\ \A r \in SeqProcs : (run[r].pc = "fetch") ~> (run[r].pc # "fetch")

\* the loop was left at the safety limit, after 100 full batches
C9_Witness ==
  \E r \in SeqProcs :
    /\ run[r].pc \notin {"idle", "fetch"}
    /\ ~run[r].stoppedEarly
    /\ run[r].requests = 100
    /\ run[r].lastRequestOffset = 99000
    /\ run[r].offset = 100000

(***************************************************************************)
(* Alert store, lib/services/alert-detection.ts saveAlerts, driven by the  *)
(* check-alerts route.  The candidates of a pass are the output of         *)
(* detectAlerts: at most one per (funnel, step, type).  A funnel-level     *)
(* candidate has no stepNumber, written 0.                                 *)
(***************************************************************************)
syncVars == <<funnel, funnelSteps, stepAnalytics, funnelAnalytics, syncLog, run,
              runsStarted, interrupts, lastWrite, normIn, normOut,
              calcIn, calcOut, hook, funnelEntries, otherFunnels>>

\* date-fns subDays(date, 1) on the hour clock
subDays1(date) == date - HoursPerDay

SameTriple(a, b) ==
  a.funnelId = b.funnelId /\ a.stepNumber = b.stepNumber /\ a.type = b.type

existingAlertNoWindow(stored, alert, date) ==
  \E k \in DOMAIN stored :
    /\ SameTriple(stored[k], alert)
    /\ stored[k].status = "active"

\* lines 317-327: prisma.alert.findFirst finds a row
existingAlert(stored, alert, date) ==
  \E k \in DOMAIN stored :
    /\ SameTriple(stored[k], alert)
    /\ stored[k].status = "active"
    /\ stored[k].createdAt >= subDays1(date)

DetectedAlerts ==
  [funnelId : {"f1"}, stepNumber : {3}, type : {"drop_off"},
   severity : {"critical", "info"}]
    \cup [funnelId : {"f1"}, stepNumber : {0}, type : {"volume"}, severity : {"warning"}]

DetectedLists ==
  { s \in SeqsUpTo(DetectedAlerts, 2) :
      \A i, j \in DOMAIN s : i # j => ~SameTriple(s[i], s[j]) }

\* check-alerts/route.ts lines 28-33: detectAlerts has returned, saveAlerts starts
StartPass(p, detected) ==
  /\ pass[p].pc \in {"idle", "done"}
  /\ passesStarted < MaxPasses
  /\ passesStarted' = passesStarted + 1
  /\ pass' = [pass EXCEPT ![p] =
       [IdlePass EXCEPT !.detected = detected, !.i = 1, !.id = passesStarted + 1,
                        !.pc = IF Len(detected) = 0 THEN "done" ELSE "find"]]
  /\ UNCHANGED <<alerts, slackLog, now, decisions, syncVars>>

\* the loop goes to its next candidate, or saveAlerts returns savedCount
NextCandidate(rec) ==
  [rec EXCEPT !.i = @ + 1, !.pc = IF rec.i < Len(rec.detected) THEN "find" ELSE "done"]

\* lines 317-329: findFirst; a candidate with an existing alert is skipped
FindExisting(p) ==
  /\ pass[p].pc = "find"
  /\ LET alert == pass[p].detected[pass[p].i]
         found == existingAlert(alerts, alert, now)
         rec == [pass[p] EXCEPT
                   !.at = now,
                   !.priors = { [createdAt |-> alerts[k].createdAt,
                                 status |-> alerts[k].status] :
                                k \in { j \in DOMAIN alerts : SameTriple(alerts[j], alert) } }]
     IN /\ pass' = [pass EXCEPT ![p] =
             IF found THEN NextCandidate(rec) ELSE [rec EXCEPT !.pc = "create"]]
        /\ decisions' =
             IF found
               THEN Append(decisions,
                      [alert |-> alert, at |-> now, priors |-> rec.priors, stored |-> FALSE,
                       passNo |-> pass[p].id])
               ELSE decisions
  /\ UNCHANGED <<alerts, slackLog, now, passesStarted, syncVars>>

CreateAlertPushAll(p) ==
  /\ pass[p].pc = "create"
  /\ LET alert == pass[p].detected[pass[p].i]
         rec == [pass[p] EXCEPT !.savedCount = @ + 1]
     IN /\ alerts' = Append(alerts,
             [funnelId |-> alert.funnelId, stepNumber |-> alert.stepNumber,
              type |-> alert.type, severity |-> alert.severity, status |-> "active",
              createdAt |-> now])
        /\ decisions' = Append(decisions,
             [alert |-> alert, at |-> pass[p].at, priors |-> pass[p].priors,
              stored |-> TRUE, passNo |-> pass[p].id])
        /\ pass' = [pass EXCEPT ![p] = [rec EXCEPT !.pc = "slack"]]
  /\ UNCHANGED <<slackLog, now, passesStarted, syncVars>>

\* lines 330-348: prisma.alert.create, savedCount++
CreateAlert(p) ==
  /\ pass[p].pc = "create"
  /\ LET alert == pass[p].detected[pass[p].i]
         rec == [pass[p] EXCEPT !.savedCount = @ + 1]
     IN /\ alerts' = Append(alerts,
             [funnelId |-> alert.funnelId, stepNumber |-> alert.stepNumber,
              type |-> alert.type, severity |-> alert.severity, status |-> "active",
              createdAt |-> now])
        /\ decisions' = Append(decisions,
             [alert |-> alert, at |-> pass[p].at, priors |-> pass[p].priors,
              stored |-> TRUE, passNo |-> pass[p].id])
        /\ pass' = [pass EXCEPT ![p] =
             IF alert.severity = "critical" \/ alert.severity = "warning"
               THEN [rec EXCEPT !.pc = "slack"]
               ELSE NextCandidate(rec)]
  /\ UNCHANGED <<slackLog, now, passesStarted, syncVars>>

PushOf(p, delivered) ==
  [alert |-> pass[p].detected[pass[p].i], passNo |-> pass[p].id, delivered |-> delivered]

SendSlackRethrow(p, delivered) ==
  /\ pass[p].pc = "slack"
  /\ slackLog' = Append(slackLog, PushOf(p, delivered))
  /\ pass' = [pass EXCEPT ![p] =
       IF delivered THEN NextCandidate(pass[p]) ELSE [pass[p] EXCEPT !.pc = "done"]]
  /\ UNCHANGED <<alerts, now, passesStarted, decisions, syncVars>>

\* lines 348-354, sendAlertToSlack and sendSlackMessage: the push; a push
\* that fails (no webhook URL, network error, non-success status) answers
\* false or throws into the catch of line 351, and the loop goes on
SendSlack(p, delivered) ==
  /\ pass[p].pc = "slack"
  /\ slackLog' = Append(slackLog, PushOf(p, delivered))
  /\ pass' = [pass EXCEPT ![p] = NextCandidate(pass[p])]
  /\ UNCHANGED <<alerts, now, passesStarted, decisions, syncVars>>

TickHours == 12

\* time passes, half a day at a time
Tick ==
  /\ now + TickHours <= MaxClock
  /\ now' = now + TickHours
  /\ UNCHANGED <<alerts, slackLog, pass, passesStarted, decisions, syncVars>>

\* alert checks one after another
NextAlerts ==
  \/ Tick
  \/ \E p \in SeqProcs :
       \/ \E detected \in DetectedLists : StartPass(p, detected)
       \/ FindExisting(p)
       \/ CreateAlert(p)
       \/ \E delivered \in BOOLEAN : SendSlack(p, delivered)

SpecAlerts == Init /\ [][NextAlerts]_vars

\* C10: when a candidate is checked while exactly one alert with its (funnel,
\* step, type) is stored and that alert is active, the candidate is not
\* stored if the check comes less than 24 hours after the alert was created,
\* and it is stored if the check comes more than 24 hours after.
C10_AlertDedupWindow ==
  \A j \in DOMAIN decisions :
    \A prior \in decisions[j].priors :
      (decisions[j].priors = {prior} /\ prior.status = "active") =>
        /\ decisions[j].at - prior.createdAt < 24 => ~decisions[j].stored
        /\ decisions[j].at - prior.createdAt > 24 => decisions[j].stored

\* the same anomaly was detected three times: stored, suppressed within 24
\* hours, stored again after the window
C10_Witness ==
  /\ Len(decisions) = 3
  /\ \A j \in 1..3 : decisions[j].alert.stepNumber = 3
  /\ decisions[1].stored
  /\ ~decisions[2].stored
  /\ decisions[2].at - decisions[1].at < 24
  /\ decisions[3].stored
  /\ decisions[3].priors = {[createdAt |-> decisions[1].at, status |-> "active"]}
  /\ Len(alerts) = 2

(***************************************************************************)
(* Alert severity, lib/services/alert-detection.ts getSeverity, applied to *)
(* every pair of a drop-off rate and a percentage change on a grid of      *)
(* whole percents (SpecSeverity)                                           *)
(***************************************************************************)
MaxRate == 100
MaxChange == 60

DEFAULT_CONFIG ==
  [ dropOffRateThresholdVsPrevDay |-> 15,
    dropOffRateThresholdVs7Day |-> 10,
    conversionDropThresholdVsPrevDay |-> 20,
    volumeDropThresholdVsPrevDay |-> 30,
    criticalDropOffThreshold |-> 50,
    warningDropOffThreshold |-> 30 ]

\* JavaScript numbers as exact quotients [num, den] with den > 0; a quotient
\* with den = 0 stands for what a division by zero gives: Infinity (num > 0),
\* -Infinity (num < 0) or NaN (num = 0).  The rounding of doubles is not
\* modelled.
Num(n) == Fraction(n, 1)

Minus(a, b) == Fraction(a.num * b.den - b.num * a.den, a.den * b.den)

Plus(a, b) == Fraction(a.num * b.den + b.num * a.den, a.den * b.den)

\* a / b, for finite a
Divide(a, b) ==
  IF b.num = 0
    THEN [num |-> IF a.num > 0 THEN 1 ELSE IF a.num < 0 THEN 0 - 1 ELSE 0, den |-> 0]
  ELSE IF b.num > 0 THEN Fraction(a.num * b.den, a.den * b.num)
  ELSE Fraction((0 - a.num) * b.den, a.den * (0 - b.num))

\* a * n, for an integer n > 0
Times(a, n) == IF a.den = 0 THEN a ELSE Fraction(a.num * n, a.den)

\* a > b and a < b; both are false when a is NaN
GreaterThan(a, b) == a.num * b.den > b.num * a.den

LessThan(a, b) == a.num * b.den < b.num * a.den

\* lines 265-282, with this.config = DEFAULT_CONFIG
getSeverity(dropOffRate, percentageChange) ==
  IF \/ GreaterThan(dropOffRate, Num(DEFAULT_CONFIG.criticalDropOffThreshold))
     \/ GreaterThan(percentageChange, Num(50))
    THEN "critical"
  ELSE IF \/ GreaterThan(dropOffRate, Num(DEFAULT_CONFIG.warningDropOffThreshold))
          \/ GreaterThan(percentageChange, Num(25))
    THEN "warning"
  ELSE "info"

GetSeverity ==
  /\ ~calcOut.done
  /\ calcOut' = [done |-> TRUE,
                 severity |-> getSeverity(Num(calcIn.dropOffRate),
                                         Num(calcIn.percentageChange))]
  /\ UNCHANGED <<calcIn, syncVarsOnly, alertVars, hookVars>>

InitSeverity ==
  /\ InitStore
  /\ InitAlerts
  /\ InitHook
  /\ normIn = <<>>
  /\ normOut = NoNorm
  /\ calcIn \in [dropOffRate : 0..MaxRate, percentageChange : (0 - MaxChange)..MaxChange]
  /\ calcOut = NoCalc

NextSeverity == GetSeverity

SpecSeverity == InitSeverity /\ [][NextSeverity]_vars

\* C11: with the default thresholds the severity is critical at a drop-off
\* rate of 55% whatever the percentage change, warning at a drop-off rate of
\* 30% with a percentage change of 12%, and info at a drop-off rate of 10%
\* with a percentage change of 2%.
C11_SeverityThresholds ==
  calcOut.done =>
    /\ calcIn.dropOffRate = 55 => calcOut.severity = "critical"
    /\ (calcIn.dropOffRate = 30 /\ calcIn.percentageChange = 12) =>
         calcOut.severity = "warning"
    /\ (calcIn.dropOffRate = 10 /\ calcIn.percentageChange = 2) =>
         calcOut.severity = "info"

(***************************************************************************)
(* Properties of the step catalog reconciler (Spec)                        *)
(***************************************************************************)
ObservedKeys(rec) ==
  UNION { { rec.entries[e].page_views[i] : i \in DOMAIN rec.entries[e].page_views } :
          e \in DOMAIN rec.entries }

CatalogNumbers == { FUNNEL_PAGES[i].pageNumber : i \in DOMAIN FUNNEL_PAGES }

\* C12: while a run upserts its auto-created steps and when it has done so,
\* the j-th observed key absent from the catalog is the key of step
\* 1000 + (j - 1), these step numbers are pairwise distinct and none is a
\* catalog step number, the catalog steps 1 to 55 still carry their catalog
\* keys, and once the loop is over every observed key absent from the
\* catalog is the key of a step numbered 1000 or more.
C12_DynamicOrdinals ==
  \A r \in SeqProcs :
    run[r].pc \in {"dynamic", "findSteps"} =>
      LET keys == dynamicKeys(run[r].agg)
          done == 1..run[r].dynIdx
      IN /\ \A j \in done :
              /\ 1000 + (j - 1) \in DOMAIN funnelSteps
              /\ funnelSteps[1000 + (j - 1)] = keys[j]
              /\ 1000 + (j - 1) \notin CatalogNumbers
         /\ \A i, j \in DOMAIN keys : i # j => keys[i] # keys[j]
         /\ CatalogNumbers = 1..55
         /\ \A i \in DOMAIN FUNNEL_PAGES :
              funnelSteps[FUNNEL_PAGES[i].pageNumber] = FUNNEL_PAGES[i].pageKey
         /\ run[r].pc = "findSteps" =>
              \A k \in ObservedKeys(run[r]) \ existingStepKeys :
                \E n \in DOMAIN funnelSteps : n >= 1000 /\ funnelSteps[n] = k

\* a run has given steps 1000 and 1001 to the two keys it observed outside
\* the catalog
C12_Witness ==
  \E r \in SeqProcs :
    /\ run[r].pc = "findSteps"
    /\ run[r].dynIdx = 2
    /\ funnelSteps[1000] = "other_page"
    /\ funnelSteps[1001] = "new_page_key"
    /\ funnelSteps[55] = "calendar_page"

\* C13: when a run has written all its days and answered, no two steps of
\* the funnel carry the same step key.
C13_UniqueStepKeys ==
  \A r \in SeqProcs :
    Completed(run[r]) =>
      \A n, m \in DOMAIN funnelSteps : n # m => funnelSteps[n] # funnelSteps[m]

\* C14: a step numbered 1000 or more keeps the step key it was created with.
C14_StableDynamicIds ==
  [][ \A n \in DOMAIN funnelSteps : n >= 1000 => funnelSteps'[n] = funnelSteps[n] ]_vars

(***************************************************************************)
(* The rate derivation of a step record applied to every pair of final     *)
(* counts up to MaxViews views (SpecRates)                                 *)
(***************************************************************************)
MaxViews == 100

RateInputs ==
  { [views |-> v, exits |-> x, continues |-> v - x] : v \in 0..MaxViews, x \in 0..MaxViews }

ComputeRates ==
  /\ ~calcOut.done
  /\ calcOut' = [done |-> TRUE, record |-> stepRecord(1, 0, calcIn)]
  /\ UNCHANGED <<calcIn, syncVarsOnly, alertVars, hookVars>>

InitRates ==
  /\ InitStore
  /\ InitAlerts
  /\ InitHook
  /\ normIn = <<>>
  /\ normOut = NoNorm
  /\ calcIn \in { d \in RateInputs : d.exits <= d.views }
  /\ calcOut = NoCalc

NextRates == ComputeRates

SpecRates == InitRates /\ [][NextRates]_vars

\* C16: the record of a step holds the final counts, its drop-off rate is
\* exits / views * 100 and its conversion rate is continues / views * 100
\* (25 and 75 for 100 views, 25 exits and 75 continues), and both rates are 0
\* when views is 0.
C16_RatesFromFinalCounts ==
  calcOut.done =>
    LET rec == calcOut.record
    IN /\ rec.entries = calcIn.views
       /\ rec.exits = calcIn.exits
       /\ rec.conversions = calcIn.continues
       /\ calcIn.views > 0 =>
            /\ rec.dropOffRate.num * calcIn.views = calcIn.exits * 100 * rec.dropOffRate.den
            /\ rec.conversionRate.num * calcIn.views =
                 calcIn.continues * 100 * rec.conversionRate.den
       /\ calcIn.views = 0 =>
            /\ rec.dropOffRate = [num |-> 0, den |-> 1]
            /\ rec.conversionRate = [num |-> 0, den |-> 1]
       /\ (calcIn.views = 100 /\ calcIn.exits = 25 /\ calcIn.continues = 75) =>
            /\ rec.dropOffRate = [num |-> 25, den |-> 1]
            /\ rec.conversionRate = [num |-> 75, den |-> 1]

\* the record of 100 views, 25 exits and 75 continues has been derived
C16_Witness ==
  /\ calcOut.done
  /\ calcIn = [views |-> 100, exits |-> 25, continues |-> 75]
  /\ calcOut.record.dropOffRate = [num |-> 25, den |-> 1]
  /\ calcOut.record.conversionRate = [num |-> 75, den |-> 1]

(***************************************************************************)
(* The webhook receiver, POST of the webhook route.  A payload is given by *)
(* the fields the handler reads, an absent field being the empty string.   *)
(* The entry row keeps the fields entryId, funnelId and completed; its     *)
(* other fields (lastStepIndex, totalSteps, timeSpent, timestamps) are     *)
(* read by nothing.  The funnel of a project is named by its embeddablesId.*)
(***************************************************************************)
MaxPosts == 2

EMBEDDABLES_PROJECT_ID == "proj_a"

HookPayloads ==
  [ type : {"user.submitted.test", "user.paid.test", ""},
    projectId : {"", "proj_a", "proj_b"},
    flowId : {"", "proj_b"},
    entryId : {"", "e1"},
    id : {"", "e2"},
    completed : BOOLEAN ]

\* a || b on strings
OrElse(a, b) == IF a # "" THEN a ELSE b

\* eventType.includes('submitted') on the event types of the model
includesSubmitted(eventType) == eventType = "user.submitted.test"

HookSnapshot ==
  [stepAnalytics |-> stepAnalytics, funnelAnalytics |-> funnelAnalytics,
   funnel |-> funnel, funnelSteps |-> funnelSteps, syncLogLen |-> Len(syncLog),
   otherFunnels |-> otherFunnels, funnelEntries |-> funnelEntries,
   runsStarted |-> runsStarted]

\* lines 112-144: signature check, body parsing, event type, project and
\* entry identifiers (payload.userId and rawPayload.event are further
\* fallbacks of the same shape as payload.id and payload.type)
StartHook(signatureOk, bodyOk, payload, envProjectId) ==
  /\ hook.pc \in {"idle", "done"}
  /\ hook.posts < MaxPosts
  /\ LET eventType == OrElse(payload.type, "unknown")
         projectId == OrElse(payload.projectId, OrElse(payload.flowId, envProjectId))
         entryId == OrElse(payload.entryId,
                           OrElse(payload.id, "entry_" \o ToString(now)))
         fresh == [IdleHook EXCEPT !.posts = hook.posts + 1, !.before = HookSnapshot]
     IN hook' =
          IF ~signatureOk
            THEN [fresh EXCEPT !.pc = "done", !.response.status = 401]
          ELSE IF ~bodyOk
            THEN [fresh EXCEPT !.pc = "done", !.response.status = 500]
          ELSE IF projectId = ""
            THEN [fresh EXCEPT !.pc = "done", !.response.status = 400]
          ELSE [fresh EXCEPT !.pc = "funnel", !.projectId = projectId,
                             !.entryId = entryId,
                             !.isCompleted = includesSubmitted(eventType)
                                               \/ payload.completed]
  /\ UNCHANGED <<funnelEntries, otherFunnels, syncVarsOnly, alertVars, calcVars>>

\* lines 146-161: findFirst by embeddablesId, create when there is none
HookEnsureFunnel ==
  /\ hook.pc = "funnel"
  /\ funnel' = (funnel \/ hook.projectId = EMBEDDABLES_PROJECT_ID)
  /\ otherFunnels' = IF hook.projectId = EMBEDDABLES_PROJECT_ID THEN otherFunnels
                     ELSE otherFunnels \cup {hook.projectId}
  /\ hook' = [hook EXCEPT !.pc = "entry"]
  /\ UNCHANGED <<funnelEntries, funnelSteps, stepAnalytics, funnelAnalytics, syncLog,
                 run, runsStarted, interrupts, lastWrite, normIn, normOut, alertVars,
                 calcVars>>

\* prisma.funnelEntry.upsert keyed by entryId
upsertEntry(entries, entryId, funnelId, isCompleted) ==
  [ e \in (DOMAIN entries) \cup {entryId} |->
      IF e # entryId THEN entries[e]
      ELSE IF entryId \in DOMAIN entries
        THEN [entries[e] EXCEPT !.completed = isCompleted]
        ELSE [funnelId |-> funnelId, completed |-> isCompleted] ]

HookUpsertEntryCountingStart ==
  /\ hook.pc = "entry"
  /\ funnelEntries' =
       upsertEntry(funnelEntries, hook.entryId, hook.projectId, hook.isCompleted)
  /\ funnelAnalytics' = funnelAnalytics (+)
       SetToBag({funnelRecord([starts |-> 1, completions |-> 0], DateKey(now))})
  /\ hook' = [hook EXCEPT !.pc = "done",
                          !.response = [status |-> 200, success |-> TRUE]]
  /\ UNCHANGED <<otherFunnels, funnel, funnelSteps, stepAnalytics, syncLog, run,
                 runsStarted, interrupts, lastWrite, normIn, normOut, alertVars,
                 calcVars>>

\* lines 163-203: the entry upsert and the success response
HookUpsertEntry ==
  /\ hook.pc = "entry"
  /\ funnelEntries' =
       upsertEntry(funnelEntries, hook.entryId, hook.projectId, hook.isCompleted)
  /\ hook' = [hook EXCEPT !.pc = "done",
                          !.response = [status |-> 200, success |-> TRUE]]
  /\ UNCHANGED <<otherFunnels, syncVarsOnly, alertVars, calcVars>>

\* lines 204-214: an awaited store call rejects
HookThrow ==
  /\ hook.pc \in {"funnel", "entry"}
  /\ hook' = [hook EXCEPT !.pc = "done", !.response.status = 500]
  /\ UNCHANGED <<funnelEntries, otherFunnels, syncVarsOnly, alertVars, calcVars>>

HookStep ==
  \/ HookEnsureFunnel
  \/ HookUpsertEntry
  \/ HookThrow

HookBatch ==
  [ length |-> 2,
    entries |->
      << [embeddable_id |-> EMBEDDABLES_EMBEDDABLE_ID, created_at |-> 23,
          page_views |-> <<"other_page", "new_page_key", "payment_successful">>],
         [embeddable_id |-> EMBEDDABLES_EMBEDDABLE_ID, created_at |-> 25,
          page_views |-> <<"current_height_and_weight", "new_page_key",
                           "current_height_and_weight">>] >> ]

\* webhook posts before and after one sync run over two entries; a post is
\* handled while no run is under way
NextHook ==
  \/ /\ runsStarted = 0
     /\ hook.pc \in {"idle", "done"}
     /\ StartRun(1, TRUE, TRUE)
  \/ FetchBatch(1, HookBatch)
  \/ WriteStep(1)
  \/ /\ run[1].pc \in Terminal
     /\ \E signatureOk \in BOOLEAN, bodyOk \in BOOLEAN, payload \in HookPayloads,
           envProjectId \in {"", EMBEDDABLES_PROJECT_ID} :
          StartHook(signatureOk, bodyOk, payload, envProjectId)
  \/ HookStep

SpecHook == Init /\ [][NextHook]_vars

\* C17: when a webhook request has been answered, whatever its event type
\* and payload, the step rows, the funnel rows, the step catalog and the
\* sync log are those stored when it arrived; at most one funnel was
\* created, none was removed, and every entry row other than the one of the
\* request's entry id is as it was.
C17_WebhookLeavesAggregates ==
  (hook.pc = "done" /\ runsStarted = hook.before.runsStarted) =>
    /\ stepAnalytics = hook.before.stepAnalytics
    /\ funnelAnalytics = hook.before.funnelAnalytics
    /\ funnelSteps = hook.before.funnelSteps
    /\ Len(syncLog) = hook.before.syncLogLen
    /\ hook.before.funnel => funnel
    /\ hook.before.otherFunnels \subseteq otherFunnels
    /\ Cardinality(otherFunnels \ hook.before.otherFunnels)
         + (IF funnel /\ ~hook.before.funnel THEN 1 ELSE 0) <= 1
    /\ DOMAIN funnelEntries \subseteq (DOMAIN hook.before.funnelEntries) \cup {hook.entryId}
    /\ \A e \in DOMAIN hook.before.funnelEntries :
         /\ e \in DOMAIN funnelEntries
         /\ e # hook.entryId => funnelEntries[e] = hook.before.funnelEntries[e]

\* a submission event was stored as a completed entry after a sync run had
\* written its rows
C17_Witness ==
  /\ hook.pc = "done"
  /\ hook.response.status = 200
  /\ hook.isCompleted
  /\ runsStarted = 1
  /\ hook.before.runsStarted = 1
  /\ stepAnalytics # EmptyBag
  /\ funnelAnalytics # EmptyBag
  /\ hook.entryId \in DOMAIN funnelEntries
  /\ funnelEntries[hook.entryId].completed

StoredBy(passNo) ==
  { j \in DOMAIN decisions : decisions[j].passNo = passNo /\ decisions[j].stored }

DecidedBy(passNo) == { j \in DOMAIN decisions : decisions[j].passNo = passNo }

\* C18: when saveAlerts has returned, every candidate of the pass was
\* decided and the saved count is the number of candidates the pass stored,
\* whether their push was delivered or failed; and every alert whose push
\* failed is a stored row.
C18_PushFailureSwallowed ==
  /\ \A p \in SeqProcs :
       pass[p].pc = "done" =>
         /\ Cardinality(DecidedBy(pass[p].id)) = Len(pass[p].detected)
         /\ pass[p].savedCount = Cardinality(StoredBy(pass[p].id))
  /\ Len(alerts) = Cardinality({ j \in DOMAIN decisions : decisions[j].stored })
  /\ \A s \in DOMAIN slackLog :
       ~slackLog[s].delivered =>
         \E k \in DOMAIN alerts :
           /\ SameTriple(alerts[k], slackLog[s].alert)
           /\ alerts[k].severity = slackLog[s].alert.severity

\* the push of the first of two candidates failed; both are stored and counted
C18_Witness ==
  \E p \in SeqProcs :
    /\ pass[p].pc = "done"
    /\ Len(pass[p].detected) = 2
    /\ pass[p].savedCount = 2
    /\ Len(alerts) = 2
    /\ Len(slackLog) >= 1
    /\ ~slackLog[1].delivered
    /\ slackLog[1].alert = pass[p].detected[1]

\* C19: every push is of an alert of severity critical or warning that the
\* same pass stored, and a pass pushes an alert at most once; so neither a
\* suppressed candidate nor an info alert is ever pushed, while info alerts
\* are stored like the others.
C19_PushOnlyNewSevere ==
  /\ \A s \in DOMAIN slackLog :
       /\ slackLog[s].alert.severity \in {"critical", "warning"}
       /\ \E j \in StoredBy(slackLog[s].passNo) : decisions[j].alert = slackLog[s].alert
  /\ \A s, t \in DOMAIN slackLog :
       (s # t /\ slackLog[s].passNo = slackLog[t].passNo) =>
         ~SameTriple(slackLog[s].alert, slackLog[t].alert)
  /\ \A j \in DOMAIN decisions :
       (decisions[j].stored /\ decisions[j].alert.severity = "info") =>
         \E k \in DOMAIN alerts :
           SameTriple(alerts[k], decisions[j].alert) /\ alerts[k].severity = "info"

\* an info alert was stored without a push, a critical alert was stored and
\* pushed, and a later candidate for it was suppressed without a push
C19_Witness ==
  /\ Len(slackLog) = 1
  /\ slackLog[1].alert.severity = "critical"
  /\ \E j \in DOMAIN decisions : decisions[j].stored /\ decisions[j].alert.severity = "info"
  /\ \E j \in DOMAIN decisions :
       /\ ~decisions[j].stored
       /\ decisions[j].alert.severity = "critical"
       /\ decisions[j].passNo > slackLog[1].passNo

(***************************************************************************)
(* Two overlapping invocations of the sync route (SpecConc): each makes    *)
(* one request, answered by a short page, and runs to its end; their       *)
(* awaited store calls interleave in any order.                            *)
(***************************************************************************)
ConcEntryLists ==
  LET entry(created_at, page_views) ==
        [embeddable_id |-> EMBEDDABLES_EMBEDDABLE_ID, created_at |-> created_at,
         page_views |-> page_views]
      viewsA == <<"current_height_and_weight", "new_page_key", "current_height_and_weight">>
      viewsB == <<"other_page", "new_page_key", "payment_successful">>
  IN { <<entry(23, viewsA)>>, <<entry(23, viewsB)>>, <<entry(23, viewsA), entry(25, viewsB)>> }

ConcBatches == { [length |-> Len(es), entries |-> es] : es \in ConcEntryLists }

NextConc ==
  \E r \in ProcIds :
    \/ /\ run[r].pc = "idle"
       /\ StartRun(r, TRUE, TRUE)
    \/ \E batch \in ConcBatches : FetchBatch(r, batch)
    \/ WriteStep(r)

SpecConc == Init /\ [][NextConc]_vars

\* the number of (day, step key) pairs with at least one view in the data of a run
DayKeyPairs(rec) ==
  LET dsd == rec.agg.dailyStepData
      RECURSIVE sum(_)
      sum(d) == IF d = 0 THEN 0 ELSE Len(dsd.val[d].order) + sum(d - 1)
  IN sum(Len(dsd.order))

\* C15: when a run writes its aggregates, every step key observed in its
\* fetched entries has a step id, and a run that has answered wrote one step
\* row for every (day, step key) pair with at least one view.
C15_ObservedKeysHaveRows ==
  \A r \in ProcIds :
    /\ run[r].pc \in WritePhase \cup {"log"} =>
         ObservedKeys(run[r]) \subseteq DOMAIN run[r].keyToId
    /\ Completed(run[r]) => run[r].stepsProcessed = DayKeyPairs(run[r])

\* C20: when two overlapping runs that fetched the same entries have both
\* answered, the step rows and the funnel row of every day of the data are
\* the rows one run computes for the day, each stored once.
C20_ConcurrentRunsConverge ==
  (Completed(run[1]) /\ Completed(run[2]) /\ run[1].entries = run[2].entries) =>
    /\ NoRowTwice(stepAnalytics)
    /\ NoRowTwice(funnelAnalytics)
    /\ \A d \in DOMAIN run[1].agg.dailyStepData.order :
         LET day == run[1].agg.dailyStepData.order[d]
         IN /\ RowsOn(stepAnalytics, day) = WrittenFor(run[1], d).stepRows
            /\ RowsOn(funnelAnalytics, day) = WrittenFor(run[1], d).funnelRows


(***************************************************************************)
(* The aggregation loop on its own, one entry per step (lines 222-271),    *)
(* followed by the records built from its result (lines 273-377)           *)
(***************************************************************************)
MaxAggEntries == 3

\* the lists of entries the loop runs over, each with an order in which the
\* same entries may also have been fetched
AggInputs ==
  LET AggPageViews ==
        { <<>>,
          <<"current_height_and_weight", "new_page_key", "current_height_and_weight">>,
          <<"new_page_key", "payment_successful", "current_height_and_weight">> }
      AggEntries ==
        [embeddable_id : {EMBEDDABLES_EMBEDDABLE_ID}, created_at : SyncCreatedAts,
         page_views : AggPageViews]
      EntryOrders(n) ==
        { p \in [1..n -> 1..n] : \A a, b \in 1..n : p[a] = p[b] => a = b }
  IN UNION { { [entries |-> es, perm |-> p] : p \in EntryOrders(Len(es)) } :
               es \in SeqsUpTo(AggEntries, MaxAggEntries) }

\* lines 287-318: every observed key without a catalog step gets its own
\* step, in upsert order
RECURSIVE upsertDynamicSteps(_, _, _)
upsertDynamicSteps(steps, keys, upsertsDone) ==
  IF upsertsDone >= Len(keys) THEN steps
  ELSE upsertDynamicSteps(
         upsertStep(steps, autoStepNumber(upsertsDone), keys[upsertsDone + 1]),
         keys, upsertsDone + 1)

\* lines 335-382: the step records of all days, in the order of the days
RECURSIVE allStepRecords(_, _, _)
allStepRecords(dailyStepData, keyToId, d) ==
  IF d > Len(dailyStepData.order) THEN <<>>
  ELSE stepRecords(dailyStepData.val[d], keyToId, dailyStepData.order[d])
         \o allStepRecords(dailyStepData, keyToId, d + 1)

\* one iteration of the loop over the entries, run side by side on the
\* entries as fetched and on the same entries in the other order
AggregateEntry ==
  /\ ~calcOut.done
  /\ calcOut.i < Len(calcIn.entries)
  /\ calcOut' =
       [calcOut EXCEPT
          !.i = @ + 1,
          !.agg = AddEntry(@, calcIn.entries[calcOut.i + 1]),
          !.aggPerm = AddEntry(@, calcIn.entries[calcIn.perm[calcOut.i + 1]])]
  /\ UNCHANGED <<calcIn, syncVarsOnly, alertVars, hookVars>>

\* after the loop: the catalog, the steps of the new keys and the records
FinishAggregation ==
  /\ ~calcOut.done
  /\ calcOut.i = Len(calcIn.entries)
  /\ LET allSteps == upsertDynamicSteps(upsertCatalog(<<>>),
                                        dynamicKeys(calcOut.agg), 0)
     IN calcOut' =
          [calcOut EXCEPT
             !.done = TRUE,
             !.rows = allStepRecords(calcOut.agg.dailyStepData, stepKeyToId(allSteps), 1)]
  /\ UNCHANGED <<calcIn, syncVarsOnly, alertVars, hookVars>>

InitAgg ==
  /\ InitStore
  /\ InitAlerts
  /\ InitHook
  /\ normIn = <<>>
  /\ normOut = NoNorm
  /\ calcIn \in AggInputs
  /\ calcOut = [done |-> FALSE, i |-> 0, agg |-> EmptyAgg, aggPerm |-> EmptyAgg,
                rows |-> <<>>]

NextAgg == AggregateEntry \/ FinishAggregation

SpecAgg == InitAgg /\ [][NextAgg]_vars

\* the counts of an aggregation without the insertion order of its maps
StepCounts(agg) ==
  UNION { { <<agg.dailyStepData.order[d], agg.dailyStepData.val[d].order[k],
              agg.dailyStepData.val[d].val[k]>> :
              k \in DOMAIN agg.dailyStepData.val[d].order } :
          d \in DOMAIN agg.dailyStepData.order }

FunnelCounts(agg) ==
  { <<agg.dailyFunnelData.order[d], agg.dailyFunnelData.val[d]>> :
      d \in DOMAIN agg.dailyFunnelData.order }

\* C21: the aggregation does not depend on the order of the entries: the
\* same entries in any other order give the same views, exits and continues
\* for every (day, page key) and the same starts and completions for every
\* day.
C21_OrderIndependent ==
  calcOut.i = Len(calcIn.entries) =>
    /\ StepCounts(calcOut.agg) = StepCounts(calcOut.aggPerm)
    /\ FunnelCounts(calcOut.agg) = FunnelCounts(calcOut.aggPerm)

C21_Witness ==
  /\ calcOut.done
  /\ calcOut.i = MaxAggEntries
  /\ \E j \in DOMAIN calcIn.perm : calcIn.perm[j] # j
  /\ Len(calcOut.agg.dailyFunnelData.order) = 2
  /\ calcOut.agg # calcOut.aggPerm
  /\ \E t \in StepCounts(calcOut.agg) : t[3].exits >= 1 /\ t[3].continues >= 1

\* the fetched entries of UTC day d among the first i
EntriesOn(d, i) ==
  { j \in 1..i : DateKey(calcIn.entries[j].created_at) = d }

VisitedKeys(j) ==
  { calcIn.entries[j].page_views[v] : v \in DOMAIN calcIn.entries[j].page_views }

ReachedPurchase(j) == VisitedKeys(j) \cap PURCHASE_COMPLETE_KEYS # {}

RECURSIVE SumStarts(_, _)
SumStarts(dailyFunnelData, d) ==
  IF d > Len(dailyFunnelData.val) THEN 0
  ELSE dailyFunnelData.val[d].starts + SumStarts(dailyFunnelData, d + 1)

RECURSIVE SumViews(_, _)
SumViews(dailySteps, k) ==
  IF k > Len(dailySteps.val) THEN 0
  ELSE dailySteps.val[k].views + SumViews(dailySteps, k + 1)

RECURSIVE SumExits(_, _)
SumExits(dailySteps, k) ==
  IF k > Len(dailySteps.val) THEN 0
  ELSE dailySteps.val[k].exits + SumExits(dailySteps, k + 1)

RECURSIVE SumCard(_)
SumCard(S) ==
  IF S = {} THEN 0
  ELSE LET j == CHOOSE x \in S : TRUE
       IN Cardinality(VisitedKeys(j)) + SumCard(S \ {j})

\* C26: the starts of a day are the fetched entries of that UTC day, its
\* completions those of them that reached a purchase page, so that
\* 0 <= completions <= starts; an entry without page visits is one start,
\* not completed, and adds nothing to the step counts; the starts of all days
\* add up to entriesProcessed.
C26_StartsAndCompletions ==
  LET agg == calcOut.agg
      days == { DateKey(calcIn.entries[j].created_at) : j \in 1..calcOut.i }
  IN /\ { agg.dailyFunnelData.order[d] : d \in DOMAIN agg.dailyFunnelData.order } = days
     /\ Len(agg.dailyFunnelData.order) = Cardinality(days)
     /\ \A d \in DOMAIN agg.dailyFunnelData.order :
          LET day == agg.dailyFunnelData.order[d]
              daily == agg.dailyFunnelData.val[d]
          IN /\ daily.starts = Cardinality(EntriesOn(day, calcOut.i))
             /\ daily.completions =
                  Cardinality({ j \in EntriesOn(day, calcOut.i) : ReachedPurchase(j) })
             /\ 0 <= daily.completions
             /\ daily.completions <= daily.starts
             /\ MapHas(agg.dailyStepData, day)
             /\ SumViews(MapGet(agg.dailyStepData, day), 1)
                  = SumCard(EntriesOn(day, calcOut.i))
     /\ agg.entriesProcessed = calcOut.i
     /\ SumStarts(agg.dailyFunnelData, 1) = agg.entriesProcessed

C26_Witness ==
  /\ calcOut.done
  /\ calcOut.i = MaxAggEntries
  /\ \E j \in 1..calcOut.i : calcIn.entries[j].page_views = <<>>
  /\ Len(calcOut.agg.dailyFunnelData.order) = 2
  /\ \E d \in DOMAIN calcOut.agg.dailyFunnelData.val :
       /\ calcOut.agg.dailyFunnelData.val[d].starts = 2
       /\ calcOut.agg.dailyFunnelData.val[d].completions = 1

\* C27: at every point of the aggregation and in every step record built
\* from it, views = exits + continues, views >= 1 and views <= the starts of
\* the day.
C27_ViewsConserved ==
  LET agg == calcOut.agg
  IN /\ \A d \in DOMAIN agg.dailyStepData.order :
          \A k \in DOMAIN agg.dailyStepData.val[d].val :
            LET data == agg.dailyStepData.val[d].val[k]
            IN /\ data.views = data.exits + data.continues
               /\ data.views >= 1
               /\ data.views <= MapGet(agg.dailyFunnelData, agg.dailyStepData.order[d]).starts
     /\ \A n \in DOMAIN calcOut.rows :
          LET row == calcOut.rows[n]
          IN /\ row.entries = row.exits + row.conversions
             /\ row.entries >= 1
             /\ row.entries <= MapGet(agg.dailyFunnelData, row.date).starts

C27_Witness ==
  /\ calcOut.done
  /\ Len(calcOut.rows) >= 3
  /\ \E n \in DOMAIN calcOut.rows :
       /\ calcOut.rows[n].entries = 2
       /\ calcOut.rows[n].exits = 1
       /\ calcOut.rows[n].conversions = 1
       /\ MapGet(calcOut.agg.dailyFunnelData, calcOut.rows[n].date).starts = 3

\* C28: on every day the exits of all page keys add up to the entries of
\* that day that did not complete and have at least one page visit.
C28_ExitsAreDropouts ==
  \A d \in DOMAIN calcOut.agg.dailyStepData.order :
    LET day == calcOut.agg.dailyStepData.order[d]
    IN SumExits(calcOut.agg.dailyStepData.val[d], 1) =
         Cardinality({ j \in EntriesOn(day, calcOut.i) :
                         /\ ~ReachedPurchase(j)
                         /\ Len(calcIn.entries[j].page_views) >= 1 })

C28_Witness ==
  /\ calcOut.done
  /\ \E d \in DOMAIN calcOut.agg.dailyStepData.order :
       LET day == calcOut.agg.dailyStepData.order[d]
       IN /\ SumExits(calcOut.agg.dailyStepData.val[d], 1) = 1
          /\ MapGet(calcOut.agg.dailyFunnelData, day).starts = 3
          /\ MapGet(calcOut.agg.dailyFunnelData, day).completions = 1

(***************************************************************************)
(* One run paginating over a source that does not change during the run    *)
(* (SpecSource).  The source is held in calcIn: its full pages in order,    *)
(* then its last, shorter page.  A request at offset o is answered with the *)
(* page number o / limit of the source.                                    *)
(***************************************************************************)
MaxSourcePages == 2

\* a full page holds limit entries, none, one or two of them of the
\* configured embeddable; LongSource is a source of 100000 entries or more:
\* 100 full pages of other embeddables before the last page
Sources ==
  LET OwnEntry ==
        [embeddable_id |-> EMBEDDABLES_EMBEDDABLE_ID, created_at |-> 23,
         page_views |-> <<"current_height_and_weight", "new_page_key",
                          "current_height_and_weight">>]
      OtherOwnEntry ==
        [embeddable_id |-> EMBEDDABLES_EMBEDDABLE_ID, created_at |-> 25,
         page_views |-> <<"other_page", "new_page_key", "payment_successful">>]
      FullPages ==
        { [length |-> limit, entries |-> es] :
            es \in { <<>>, <<ForeignEntry>>, <<OwnEntry>>,
                     <<OtherOwnEntry, ForeignEntry, OwnEntry>> } }
      LastPages ==
        { [length |-> 0, entries |-> <<>>],
          [length |-> 1, entries |-> <<OtherOwnEntry>>],
          [length |-> 2, entries |-> <<ForeignEntry, OwnEntry>>],
          [length |-> limit - 1, entries |-> <<ForeignEntry>>] }
      LongSource ==
        [n \in 1..(SafetyLimit \div limit) |-> [length |-> limit, entries |-> <<>>]]
  IN { [full |-> f, last |-> l] :
         f \in SeqsUpTo(FullPages, MaxSourcePages) \cup {LongSource}, l \in LastPages }

\* the response of the source to a request at the given offset
pageAt(source, offset) ==
  IF offset \div limit < Len(source.full)
    THEN source.full[offset \div limit + 1]
    ELSE source.last

\* lines 91-141 against the source
FetchFromSource(r) ==
  /\ run[r].pc = "fetch"
  /\ FetchBatch(r, pageAt(calcIn, run[r].offset))

InitSource ==
  /\ InitStore
  /\ InitAlerts
  /\ InitHook
  /\ normIn = <<>>
  /\ normOut = NoNorm
  /\ calcIn \in Sources
  /\ calcOut = NoCalc

NextSource ==
  \E r \in SeqProcs :
    \/ /\ runsStarted = 0
       /\ \E authorized \in BOOLEAN, envOk \in BOOLEAN : StartRun(r, authorized, envOk)
    \/ FetchFromSource(r)
    \/ RunStep(r)

SpecSource == InitSource /\ [][NextSource]_vars

SourceSize(source) == Len(source.full) * limit + source.last.length

RECURSIVE OwnOfPages(_, _)
OwnOfPages(pages, n) ==
  IF n > Len(pages) THEN <<>>
  ELSE SelectSeq(pages[n].entries, LAMBDA e : e.embeddable_id = EMBEDDABLES_EMBEDDABLE_ID)
         \o OwnOfPages(pages, n + 1)

\* C25: when the source holds fewer than 100000 entries, does not change
\* during the run, no request fails and the deadline does not pass, the run
\* leaves the loop with exactly the entries of the source that pass the
\* embeddable filter, each once and in source order, after one request per
\* page: a full page the filter shrinks or empties does not end the
\* pagination.
C25_FetchesWholeSource ==
  \A r \in SeqProcs :
    ( /\ run[r].pc \notin {"idle", "fetch"}
      /\ run[r].requests > 0
      /\ run[r].response.status # 502
      /\ ~run[r].stoppedEarly
      /\ SourceSize(calcIn) < SafetyLimit )
    => /\ run[r].entries = OwnOfPages(Append(calcIn.full, calcIn.last), 1)
       /\ run[r].requests = Len(calcIn.full) + 1

C25_Witness ==
  \E r \in SeqProcs :
    /\ run[r].pc = "done"
    /\ run[r].response.status = 200
    /\ ~run[r].stoppedEarly
    /\ Len(calcIn.full) = MaxSourcePages
    /\ calcIn.full[1].entries = <<>>
    /\ Len(calcIn.full[2].entries) = 3
    /\ calcIn.last.length = 2
    /\ Len(run[r].entries) = 3

(***************************************************************************)
(* The detector, lib/services/alert-detection.ts detectAlerts,             *)
(* checkFunnelMetrics and checkStepMetrics, applied to what the query of   *)
(* lines 66-93 returns: the active funnels, their analytics rows of the    *)
(* window and those of their steps, the latest row first (SpecDetect).     *)
(* An alert without a stepNumber carries 0, a field it does not have       *)
(* carries Undefined.                                                      *)
(***************************************************************************)
MaxStepPoints == 3
MaxFunnelPoints == 2

Undefined == "undefined"

RECURSIVE sumOf(_, _)
sumOf(numbers, i) ==
  IF i > Len(numbers) THEN Num(0) ELSE Plus(numbers[i], sumOf(numbers, i + 1))

\* analytics.slice(0, 7)
last7Days(analytics) ==
  SubSeq(analytics, 1, IF Len(analytics) < 7 THEN Len(analytics) ELSE 7)

\* last7Days.reduce((sum, a) => sum + a.<field>, 0) / last7Days.length
average(numbers) ==
  IF Len(numbers) = 0 THEN [num |-> 0, den |-> 0]
  ELSE Fraction(sumOf(numbers, 1).num, sumOf(numbers, 1).den * Len(numbers))

\* ((today - baseline) / baseline) * 100
percentageChange(today, baseline) == Times(Divide(Minus(today, baseline), baseline), 100)

\* lines 131-153
conversionAlerts(theFunnel) ==
  LET analytics == theFunnel.analytics
      todayAnalytics == analytics[1]
      yesterdayAnalytics == analytics[2]
      avgConversionRate ==
        average([i \in DOMAIN last7Days(analytics) |-> analytics[i].conversionRate])
      conversionChange ==
        percentageChange(todayAnalytics.conversionRate, yesterdayAnalytics.conversionRate)
  IN IF /\ GreaterThan(yesterdayAnalytics.conversionRate, Num(0))
        /\ LessThan(conversionChange, Num(0 - DEFAULT_CONFIG.conversionDropThresholdVsPrevDay))
       THEN << [ funnelId |-> theFunnel.id, stepNumber |-> 0,
                 severity |-> IF LessThan(conversionChange, Num(0 - 30))
                                THEN "critical" ELSE "warning",
                 type |-> "conversion",
                 currentValue |-> todayAnalytics.conversionRate,
                 previousDayValue |-> yesterdayAnalytics.conversionRate,
                 sevenDayAverage |-> avgConversionRate,
                 percentageChange |-> conversionChange ] >>
       ELSE <<>>

\* lines 155-177
volumeAlerts(theFunnel) ==
  LET analytics == theFunnel.analytics
      todayAnalytics == analytics[1]
      yesterdayAnalytics == analytics[2]
      avgVolume ==
        average([i \in DOMAIN last7Days(analytics) |-> Num(analytics[i].totalStarts)])
      volumeChange ==
        percentageChange(Num(todayAnalytics.totalStarts), Num(yesterdayAnalytics.totalStarts))
  IN IF /\ yesterdayAnalytics.totalStarts > 0
        /\ LessThan(volumeChange, Num(0 - DEFAULT_CONFIG.volumeDropThresholdVsPrevDay))
       THEN << [ funnelId |-> theFunnel.id, stepNumber |-> 0,
                 severity |-> IF LessThan(volumeChange, Num(0 - 50))
                                THEN "critical" ELSE "warning",
                 type |-> "volume",
                 currentValue |-> Num(todayAnalytics.totalStarts),
                 previousDayValue |-> Num(yesterdayAnalytics.totalStarts),
                 sevenDayAverage |-> avgVolume,
                 percentageChange |-> volumeChange ] >>
       ELSE <<>>

\* lines 113-180
checkFunnelMetrics(theFunnel) ==
  IF Len(theFunnel.analytics) < 2 THEN <<>>
  ELSE conversionAlerts(theFunnel) \o volumeAlerts(theFunnel)

avgDropOffRate(step) ==
  average([i \in DOMAIN last7Days(step.analytics) |-> step.analytics[i].dropOffRate])

dropOffAlertsNoGuard(theFunnel, step) ==
  LET todayAnalytics == step.analytics[1]
      yesterdayAnalytics == step.analytics[2]
      dropOffChange ==
        percentageChange(todayAnalytics.dropOffRate, yesterdayAnalytics.dropOffRate)
  IN IF GreaterThan(dropOffChange, Num(DEFAULT_CONFIG.dropOffRateThresholdVsPrevDay))
       THEN << [ funnelId |-> theFunnel.id, stepNumber |-> step.stepNumber,
                 severity |-> getSeverity(todayAnalytics.dropOffRate, dropOffChange),
                 type |-> "drop_off",
                 currentValue |-> todayAnalytics.dropOffRate,
                 previousDayValue |-> yesterdayAnalytics.dropOffRate,
                 sevenDayAverage |-> avgDropOffRate(step),
                 percentageChange |-> dropOffChange ] >>
       ELSE <<>>

\* lines 200-225
dropOffAlerts(theFunnel, step) ==
  LET todayAnalytics == step.analytics[1]
      yesterdayAnalytics == step.analytics[2]
      dropOffChange ==
        percentageChange(todayAnalytics.dropOffRate, yesterdayAnalytics.dropOffRate)
  IN IF /\ GreaterThan(yesterdayAnalytics.dropOffRate, Num(0))
        /\ GreaterThan(dropOffChange, Num(DEFAULT_CONFIG.dropOffRateThresholdVsPrevDay))
       THEN << [ funnelId |-> theFunnel.id, stepNumber |-> step.stepNumber,
                 severity |-> getSeverity(todayAnalytics.dropOffRate, dropOffChange),
                 type |-> "drop_off",
                 currentValue |-> todayAnalytics.dropOffRate,
                 previousDayValue |-> yesterdayAnalytics.dropOffRate,
                 sevenDayAverage |-> avgDropOffRate(step),
                 percentageChange |-> dropOffChange ] >>
       ELSE <<>>

stepAnomalyAlertsNoSuppress(theFunnel, step, pushed) ==
  LET todayAnalytics == step.analytics[1]
      dropOffChangeVs7Day == percentageChange(todayAnalytics.dropOffRate, avgDropOffRate(step))
  IN IF /\ GreaterThan(avgDropOffRate(step), Num(0))
        /\ GreaterThan(dropOffChangeVs7Day, Num(DEFAULT_CONFIG.dropOffRateThresholdVs7Day))
       THEN << [ funnelId |-> theFunnel.id, stepNumber |-> step.stepNumber,
                 severity |-> getSeverity(todayAnalytics.dropOffRate, dropOffChangeVs7Day),
                 type |-> "step_anomaly",
                 currentValue |-> todayAnalytics.dropOffRate,
                 previousDayValue |-> Undefined,
                 sevenDayAverage |-> avgDropOffRate(step),
                 percentageChange |-> dropOffChangeVs7Day ] >>
       ELSE <<>>

\* lines 227-257; alerts are those checkStepMetrics has pushed so far
stepAnomalyAlerts(theFunnel, step, pushed) ==
  LET todayAnalytics == step.analytics[1]
      dropOffChangeVs7Day == percentageChange(todayAnalytics.dropOffRate, avgDropOffRate(step))
  IN IF /\ GreaterThan(avgDropOffRate(step), Num(0))
        /\ GreaterThan(dropOffChangeVs7Day, Num(DEFAULT_CONFIG.dropOffRateThresholdVs7Day))
        /\ ~\E a \in DOMAIN pushed :
              /\ pushed[a].funnelId = theFunnel.id
              /\ pushed[a].stepNumber = step.stepNumber
              /\ pushed[a].type = "drop_off"
       THEN << [ funnelId |-> theFunnel.id, stepNumber |-> step.stepNumber,
                 severity |-> getSeverity(todayAnalytics.dropOffRate, dropOffChangeVs7Day),
                 type |-> "step_anomaly",
                 currentValue |-> todayAnalytics.dropOffRate,
                 previousDayValue |-> Undefined,
                 sevenDayAverage |-> avgDropOffRate(step),
                 percentageChange |-> dropOffChangeVs7Day ] >>
       ELSE <<>>

\* lines 185-260
checkStepMetrics(theFunnel, step) ==
  IF Len(step.analytics) < 2 THEN <<>>
  ELSE LET alerts1 == dropOffAlerts(theFunnel, step)
       IN alerts1 \o stepAnomalyAlerts(theFunnel, step, alerts1)

\* lines 101-104
RECURSIVE checkSteps(_, _)
checkSteps(theFunnel, s) ==
  IF s > Len(theFunnel.steps) THEN <<>>
  ELSE checkStepMetrics(theFunnel, theFunnel.steps[s]) \o checkSteps(theFunnel, s + 1)

\* lines 95-107
RECURSIVE detectAlerts(_, _)
detectAlerts(funnels, f) ==
  IF f > Len(funnels) THEN <<>>
  ELSE checkFunnelMetrics(funnels[f]) \o checkSteps(funnels[f], 1)
         \o detectAlerts(funnels, f + 1)

\* what the query may return: one funnel with one step, their rows
DetectInputs ==
  LET StepRates == { Num(0), Num(20), Num(24), Num(60), Fraction(100, 3) }
      StepPoints == [dropOffRate : StepRates]
      FunnelPoints ==
        { [conversionRate |-> Num(0), totalStarts |-> 0],
          [conversionRate |-> Num(40), totalStarts |-> 10],
          [conversionRate |-> Num(30), totalStarts |-> 6],
          [conversionRate |-> Num(10), totalStarts |-> 4] }
  IN { << [ id |-> "f1", analytics |-> fa,
            steps |-> << [stepNumber |-> 3, analytics |-> sa] >> ] >> :
         fa \in SeqsUpTo(FunnelPoints, MaxFunnelPoints),
         sa \in SeqsUpTo(StepPoints, MaxStepPoints) }

DetectAlerts ==
  /\ ~calcOut.done
  /\ calcOut' = [done |-> TRUE, alerts |-> detectAlerts(calcIn, 1)]
  /\ UNCHANGED <<calcIn, syncVarsOnly, alertVars, hookVars>>

InitDetect ==
  /\ InitStore
  /\ InitAlerts
  /\ InitHook
  /\ normIn = <<>>
  /\ normOut = NoNorm
  /\ calcIn \in DetectInputs
  /\ calcOut = [done |-> FALSE, alerts |-> <<>>]

NextDetect == DetectAlerts

SpecDetect == InitDetect /\ [][NextDetect]_vars

Magnitude(a) == [num |-> IF a.num < 0 THEN 0 - a.num ELSE a.num, den |-> a.den]

\* the severity rule of the claim, the size of the change taken without its
\* sign
SeverityByRule(value, change) ==
  IF GreaterThan(value, Num(50)) \/ GreaterThan(Magnitude(change), Num(50)) THEN "critical"
  ELSE IF GreaterThan(value, Num(30)) \/ GreaterThan(Magnitude(change), Num(25))
    THEN "warning"
  ELSE "info"

\* C22: every alert of the detector, of any type, has the severity of the
\* rule: critical if its value is above the critical threshold or its
\* percentage change is above 50%, else warning if its value is above the
\* warning threshold or its percentage change is above 25%, else info.
C22_SeverityRuleAllTypes ==
  \A a \in DOMAIN calcOut.alerts :
    calcOut.alerts[a].severity =
      SeverityByRule(calcOut.alerts[a].currentValue, calcOut.alerts[a].percentageChange)

StepAlertsOf(stepNumber) ==
  { a \in DOMAIN calcOut.alerts : calcOut.alerts[a].stepNumber = stepNumber }

\* C23: in one pass a step gets a 7-day-average alert only when no
\* vs-yesterday drop-off alert was emitted for the same funnel and step, and
\* each step gets at most one alert.
C23_OneAlertPerStep ==
  \A f \in DOMAIN calcIn :
    \A s \in DOMAIN calcIn[f].steps :
      LET mine == { a \in StepAlertsOf(calcIn[f].steps[s].stepNumber) :
                      calcOut.alerts[a].funnelId = calcIn[f].id }
      IN /\ Cardinality(mine) <= 1
         /\ (\E a \in mine : calcOut.alerts[a].type = "step_anomaly") =>
              ~\E a \in mine : calcOut.alerts[a].type = "drop_off"

\* both comparisons are over their thresholds and the drop-off alert alone
\* was emitted
C23_Witness ==
  /\ calcOut.done
  /\ LET step == calcIn[1].steps[1]
     IN /\ Len(step.analytics) = MaxStepPoints
        /\ GreaterThan(step.analytics[2].dropOffRate, Num(0))
        /\ GreaterThan(percentageChange(step.analytics[1].dropOffRate,
                                        step.analytics[2].dropOffRate), Num(15))
        /\ GreaterThan(percentageChange(step.analytics[1].dropOffRate,
                                        avgDropOffRate(step)), Num(10))
        /\ Cardinality(StepAlertsOf(step.stepNumber)) = 1
        /\ \A a \in StepAlertsOf(step.stepNumber) : calcOut.alerts[a].type = "drop_off"

\* C30: no alert for a funnel or a step with fewer than two rows in the
\* window, and no comparison alert with a baseline of zero (yesterday's
\* conversion rate, starts or drop-off rate, or the average drop-off rate):
\* the percentage change of an alert is never the result of a division by
\* zero.
C30_NoZeroBaseline ==
  /\ \A f \in DOMAIN calcIn :
       /\ Len(calcIn[f].analytics) < 2 =>
            ~\E a \in DOMAIN calcOut.alerts :
                /\ calcOut.alerts[a].funnelId = calcIn[f].id
                /\ calcOut.alerts[a].type \in {"conversion", "volume"}
       /\ \A s \in DOMAIN calcIn[f].steps :
            Len(calcIn[f].steps[s].analytics) < 2 =>
              ~\E a \in DOMAIN calcOut.alerts :
                  /\ calcOut.alerts[a].funnelId = calcIn[f].id
                  /\ calcOut.alerts[a].stepNumber = calcIn[f].steps[s].stepNumber
                  /\ calcOut.alerts[a].type \in {"drop_off", "step_anomaly"}
  /\ \A a \in DOMAIN calcOut.alerts :
       LET alert == calcOut.alerts[a]
       IN /\ alert.percentageChange.den # 0
          /\ alert.type \in {"conversion", "volume", "drop_off"} =>
               alert.previousDayValue.num # 0
          /\ alert.type = "step_anomaly" => alert.sevenDayAverage.num # 0

\* yesterday's drop-off rate is 0 and the average is not: the step gets the
\* 7-day-average alert only, and the funnel with one row gets none
C30_Witness ==
  /\ calcOut.done
  /\ Len(calcIn[1].analytics) = 1
  /\ Len(calcIn[1].steps[1].analytics) = MaxStepPoints
  /\ calcIn[1].steps[1].analytics[2].dropOffRate = Num(0)
  /\ Len(calcOut.alerts) = 1
  /\ calcOut.alerts[1].type = "step_anomaly"

(***************************************************************************)
(* Alert checks one after another while stored alerts are acknowledged and *)
(* resolved by hand (SpecAlertStatus).  The detector never changes the     *)
(* status of a stored alert.                                               *)
(***************************************************************************)
\* the lifecycle of an alert: active, then acknowledged and/or resolved
SetStatus(k, status) ==
  /\ k \in DOMAIN alerts
  /\ \/ alerts[k].status = "active" /\ status \in {"acknowledged", "resolved"}
     \/ alerts[k].status = "acknowledged" /\ status = "resolved"
  /\ alerts' = [alerts EXCEPT ![k].status = status]
  /\ UNCHANGED <<slackLog, now, pass, passesStarted, decisions, syncVars>>

\* one candidate per check
NextAlertStatus ==
  \/ Tick
  \/ \E k \in 1..MaxPasses, status \in {"acknowledged", "resolved"} : SetStatus(k, status)
  \/ \E p \in SeqProcs :
       \/ \E detected \in { l \in DetectedLists : Len(l) <= 1 } : StartPass(p, detected)
       \/ FindExisting(p)
       \/ CreateAlert(p)
       \/ \E delivered \in BOOLEAN : SendSlack(p, delivered)

SpecAlertStatus == Init /\ [][NextAlertStatus]_vars

\* C24: whatever checks and manual status changes came before, a candidate
\* is not stored when an alert with its (funnel, step, type) was created less
\* than 24 hours before the existence check, whatever the status of that
\* alert.
C24_DedupWhateverStatus ==
  \A j \in DOMAIN decisions :
    (\E prior \in decisions[j].priors : decisions[j].at - prior.createdAt < 24)
      => ~decisions[j].stored

(***************************************************************************)
(* Two alert checks that overlap, at one instant (SpecAlertsConc)          *)
(***************************************************************************)
NextAlertsConc ==
  \E p \in ProcIds :
    \/ \E detected \in DetectedLists : StartPass(p, detected)
    \/ FindExisting(p)
    \/ CreateAlert(p)
    \/ \E delivered \in BOOLEAN : SendSlack(p, delivered)

SpecAlertsConc == Init /\ [][NextAlertsConc]_vars

\* C29: when two checks overlap and detect the same (funnel, step, type),
\* one alert of that triple is stored and one notification is pushed,
\* however their existence checks and creates interleave.
C29_OneAlertWhenOverlapping ==
  /\ \A i, j \in DOMAIN alerts : SameTriple(alerts[i], alerts[j]) => i = j
  /\ \A i, j \in DOMAIN slackLog :
       SameTriple(slackLog[i].alert, slackLog[j].alert) => i = j

====
